---- MODULE Spec2Model ----
(***************************************************************************)
(* MealVista auth backend: the OTP store (models/OTP.js, listed at the end *)
(* of OTP_COMPLETE_GUIDE.md) and the in-memory fixed-window rate limiter   *)
(* (routes/otp-auth.js, checkRateLimit).                                   *)
(*                                                                         *)
(* Time is Date.now() measured in whole minutes: createOTP adds            *)
(* expiryMinutes * 60 * 1000 ms, i.e. expiryMinutes units of `now`.        *)
(***************************************************************************)
EXTENDS Integers, FiniteSets, Sequences, TLC

VARIABLES now, otps, nextId, last, hist,
          rateLimitMap, cfg, win, rl,
          users, tokens, http, calls

vars == <<now, otps, nextId, last, hist, rateLimitMap, cfg, win, rl,
          users, tokens, http, calls>>

\* the user collection, the reset tokens issued so far (a session token is in
\* the response that carries it) and the request being served
flowVars == <<users, tokens, http>>

----------------------------------------------------------------------------
(* Bounds of the model *)

MaxCreates == 2
MaxTime == 2
MaxM == 3
MaxW == 2

(* Program constants *)

\* hasExceededAttempts: this.attempts >= 3; also `3 - otpDoc.attempts`
MaxAttempts == 3
\* schema: attempts: { max: 5 }, and the guides' "Max 5 attempts"
DocumentedMaxAttempts == 5
\* the guides' "Expires in 10 minutes" / "10-minute expiration"
DocumentedExpiryMinutes == 10
\* OTP.createOTP(normalizedEmail, 'email_verification', 1) and the other 1-minute callers
ShortExpiryMinutes == 1
\* generateOTP: Math.floor(100000 + Math.random() * 900000)
FirstCode == 100000

\* normalizedEmail values (email.toLowerCase().trim())
Emails == {"a@gmail.com"}
Purposes == {"email_verification", "password_reset"}
Codes == {FirstCode, FirstCode + 1}
ExpiryChoices == {ShortExpiryMinutes}
Pairs == Emails \X Purposes

\* rate-limit keys as the routes build them: `signup:${normalizedEmail}`, ...
Keys == {"signup:a@gmail.com", "login:a@gmail.com"}
\* ticks of the clock per minute in the specifications of the limiter alone
ClockUnits == {1, 2}

NoRemaining == -1
NoRecord == [count |-> 0, resetTime |-> 0]
NoWindow == [start |-> 0, calls |-> 0]
NoLimit == [op |-> "none", key |-> "", allowed |-> FALSE, remaining |-> 0,
            resetIn |-> 0, branch |-> ""]
\* what has happened to a pair's codes: the code and id createOTP issued last,
\* whether it is still usable ("live"), was verified ("spent") or had its
\* attempts used up ("burned"), and the codes of the unverified records that
\* later createOTP calls replaced
NoHist == [st |-> "none", id |-> 0, otp |-> 0, old |-> {}]
\* what a run fixes: the limiter's maximum and window and the clock's ticks per
\* minute where the limiter is called alone, and the number of createOTP calls
\* the run may make
NoCfg == [maxAttempts |-> 0, windowMs |-> 0, unit |-> 1, creates |-> MaxCreates]
\* User.findOne(...) === null, and fields a document does not carry
NoTime == -1
NoUser == [exists |-> FALSE, name |-> "", password |-> <<>>, isEmailVerified |-> FALSE,
           isDeleted |-> FALSE, lastLoginAt |-> NoTime, passwordResetAt |-> NoTime,
           failedLoginAttempts |-> NoTime, accountLockedUntil |-> NoTime]
NoToken == [kind |-> "none", email |-> "", purpose |-> "", exp |-> 0]
\* no request has been served yet; `pc` is the point a handler has reached
NoRequest == [pc |-> "idle", route |-> "", email |-> "", purpose |-> "",
              status |-> 0, msg |-> "", mail |-> "none", token |-> NoToken,
              attemptsRemaining |-> NoRemaining, requiresVerification |-> FALSE,
              expiresIn |-> 0, retryAfter |-> NoTime, at |-> NoTime]
\* verifyOTP calls in flight (two callers), each between its findOne and its
\* save or deleteOne, with the comparisons made and the successes returned per
\* record id
Callers == {1, 2}
NoFlight == [pc |-> "idle", email |-> "", purpose |-> "", otp |-> 0, doc |-> [id |-> 0]]
NoCalls == [proc |-> [w \in Callers |-> NoFlight],
            wrong |-> [i \in 1..MaxCreates |-> 0],
            ok |-> [i \in 1..MaxCreates |-> 0]]
NoCall == [op |-> "none", email |-> "", purpose |-> "", otp |-> 0, id |-> 0,
           success |-> FALSE, message |-> "", attemptsRemaining |-> NoRemaining]

----------------------------------------------------------------------------
(* models/OTP.js *)

\* otpSchema.statics.generateOTP: the values Math.random() can produce
generateOTP == Codes

\* otpSchema.methods.isExpired
isExpiredGE(doc, t) == t >= doc.expiresAt
isExpired(doc, t) == t > doc.expiresAt

\* otpSchema.methods.hasExceededAttempts
hasExceededAttemptsGT(doc) == doc.attempts > MaxAttempts
hasExceededAttempts(doc) == doc.attempts >= MaxAttempts

\* the filter { email, purpose, verified: false }
UnverifiedAnyEmail(email, purpose) == {d \in otps : d.purpose = purpose /\ ~d.verified}
UnverifiedOrVerified(email, purpose) ==
    {d \in otps : d.email = email /\ d.purpose = purpose}
UnverifiedAnyPurpose(email, purpose) == {d \in otps : d.email = email /\ ~d.verified}
Unverified(email, purpose) ==
    {d \in otps : d.email = email /\ d.purpose = purpose /\ ~d.verified}

\* findOne(...).sort({ createdAt: -1 }): any document with the greatest createdAt
MostRecent(docs) == {d \in docs : \A o \in docs : o.createdAt <= d.createdAt}

\* this.deleteMany({ email, purpose, verified: false })
deleteManyNone(email, purpose) == otps
deleteMany(email, purpose) == otps \ Unverified(email, purpose)

\* otpSchema.statics.createOTP(email, purpose, expiryMinutes)
createOTP(email, purpose, expiryMinutes) ==
    /\ nextId <= cfg.creates
    /\ \E otp \in generateOTP :
         LET otpDoc == [id |-> nextId, email |-> email, otp |-> otp,
                        purpose |-> purpose, attempts |-> 0,
                        expiresAt |-> now + expiryMinutes,
                        verified |-> FALSE, createdAt |-> now]
         IN /\ otps' = deleteMany(email, purpose) \cup {otpDoc}
            /\ nextId' = nextId + 1
            /\ last' = [op |-> "createOTP", email |-> email, purpose |-> purpose,
                        otp |-> otp, id |-> nextId, success |-> TRUE,
                        message |-> "created", attemptsRemaining |-> NoRemaining]
            /\ hist' = [hist EXCEPT ![<<email, purpose>>] =
                           [st |-> "live", id |-> nextId, otp |-> otp,
                            old |-> @.old \cup {d.otp : d \in Unverified(email, purpose)}]]
    /\ UNCHANGED <<now, rateLimitMap, cfg, win, rl, calls>>

\* the document after `otpDoc.attempts += 1; await otpDoc.save()` (wrong code)
MismatchSaveDecrement(doc) == [doc EXCEPT !.attempts = doc.attempts - 1]
MismatchSaveNoIncrement(doc) == doc
MismatchSave(doc) == [doc EXCEPT !.attempts = doc.attempts + 1]

\* the document after `otpDoc.verified = true; otpDoc.attempts += 1; save()`
MatchSaveStillUnverified(doc) == [doc EXCEPT !.attempts = doc.attempts + 1]
MatchSave(doc) == [doc EXCEPT !.verified = TRUE, !.attempts = doc.attempts + 1]

\* the result object of verifyOTP, with the call's arguments and the document
\* findOne returned (id 0: none)
Result(email, otp, purpose, doc, success, message, remaining) ==
    [op |-> "verifyOTP", email |-> email, purpose |-> purpose, otp |-> otp,
     id |-> doc.id,
     success |-> success, message |-> message, attemptsRemaining |-> remaining]

NoDoc == [id |-> 0]

\* otpSchema.statics.verifyOTP(email, otp, purpose)
verifyOTP(email, otp, purpose) ==
    /\ IF Unverified(email, purpose) = {}
       THEN /\ last' = Result(email, otp, purpose, NoDoc, FALSE, "not_found", NoRemaining)
            /\ UNCHANGED <<otps, hist>>
       ELSE \E otpDoc \in MostRecent(Unverified(email, purpose)) :
            IF isExpired(otpDoc, now)
            THEN /\ otps' = otps \ {otpDoc}
                 /\ last' = Result(email, otp, purpose, otpDoc, FALSE, "expired", NoRemaining)
                 /\ hist' = hist
            ELSE IF hasExceededAttempts(otpDoc)
            THEN /\ otps' = otps \ {otpDoc}
                 /\ last' = Result(email, otp, purpose, otpDoc, FALSE, "too_many", NoRemaining)
                 /\ hist' = hist
            ELSE IF otpDoc.otp # otp
            THEN /\ otps' = (otps \ {otpDoc}) \cup {MismatchSave(otpDoc)}
                 /\ last' = Result(email, otp, purpose, otpDoc, FALSE, "invalid",
                                   MaxAttempts - MismatchSave(otpDoc).attempts)
                 /\ hist' = IF otpDoc.attempts + 1 >= MaxAttempts
                            THEN [hist EXCEPT ![<<email, purpose>>].st = "burned"]
                            ELSE hist
            ELSE /\ otps' = (otps \ {otpDoc}) \cup {MatchSave(otpDoc)}
                 /\ last' = Result(email, otp, purpose, otpDoc, TRUE, "verified", NoRemaining)
                 /\ hist' = [hist EXCEPT ![<<email, purpose>>].st = "spent"]
    /\ UNCHANGED <<now, nextId, rateLimitMap, cfg, win, rl, calls>>

\* expiresAt: { index: { expires: 0 } }: the store's TTL monitor removes a
\* document once its expiresAt has been reached
TTLReap ==
    /\ \E d \in otps : d.expiresAt <= now /\ otps' = otps \ {d}
    /\ UNCHANGED <<now, nextId, last, hist, rateLimitMap, cfg, win, rl, flowVars, calls>>

\* Date.now() advances
Tick ==
    /\ now < MaxTime
    /\ now' = now + 1
    /\ UNCHANGED <<otps, nextId, last, hist, rateLimitMap, cfg, win, rl, flowVars, calls>>

CreateOTP ==
    /\ \E e \in Emails, p \in Purposes, m \in ExpiryChoices : createOTP(e, p, m)
    /\ UNCHANGED flowVars
VerifyOTP ==
    /\ \E e \in Emails, c \in Codes, p \in Purposes : verifyOTP(e, c, p)
    /\ UNCHANGED flowVars

Init ==
    /\ now = 0
    /\ otps = {}
    /\ nextId = 1
    /\ last = NoCall
    /\ hist = [pr \in Pairs |-> NoHist]
    /\ rateLimitMap = [k \in Keys |-> NoRecord]
    /\ cfg = NoCfg
    /\ win = [k \in Keys |-> NoWindow]
    /\ rl = NoLimit
    /\ users = [e \in Emails |-> NoUser]
    /\ tokens = {}
    /\ http = NoRequest
    /\ calls = NoCalls

Next == CreateOTP \/ VerifyOTP \/ TTLReap \/ Tick

Spec == Init /\ [][Next]_vars

----------------------------------------------------------------------------
(* routes/otp-auth.js: the rate limiter *)

\* `!record`: rateLimitMap.get(key) is undefined
noRecord(record) == record = NoRecord

\* `now > record.resetTime`
windowElapsedGE(record, t) == t >= record.resetTime
windowElapsed(record, t) == t > record.resetTime

\* `record.count >= maxAttempts`
limitReachedGT(record, maxAttempts) == record.count > maxAttempts
limitReached(record, maxAttempts) == record.count >= maxAttempts

\* `record.count += 1`
CountedNot(record) == record
Counted(record) == [record EXCEPT !.count = record.count + 1]

\* Math.ceil(x / 1000 / 60) for x >= 0, the clock counting cfg.unit ticks to
\* the minute (Date.now() counts 60000; the handlers' clock here counts 1)
CeilDiv(x, unit) == (x + unit - 1) \div unit
FloorDiv(x, unit) == x \div unit
Rounded(x, unit) == CeilDiv(x, unit)

\* Math.ceil((record.resetTime - now) / 1000 / 60)
resetInMinutes(record, t) == Rounded(record.resetTime - t, cfg.unit)

Min(a, b) == IF a <= b THEN a ELSE b

\* the calls of one key counted from the first call of its window: the call
\* that opens a window is number 1, a call within windowMs of it is the next
\* number (counted up to maxAttempts + 1)
CountCall(w, t, maxAttempts, windowMs) ==
    IF w.calls = 0 \/ t > w.start + windowMs
    THEN [start |-> t, calls |-> 1]
    ELSE [w EXCEPT !.calls = Min(w.calls + 1, maxAttempts + 1)]

\* rateLimitMap.set(key, value): the entry of one key; the other entries stay
setEvery(map, key, value) == [k \in DOMAIN map |-> value]
set(map, key, value) == [map EXCEPT ![key] = value]

\* checkRateLimit(key, maxAttempts, windowMs)
checkRateLimit(key, maxAttempts, windowMs) ==
    LET record == rateLimitMap[key] IN
    /\ IF noRecord(record)
       THEN /\ rateLimitMap' = set(rateLimitMap, key,
                                    [count |-> 1, resetTime |-> now + windowMs])
            /\ rl' = [op |-> "checkRateLimit", key |-> key, allowed |-> TRUE,
                      remaining |-> maxAttempts - 1, resetIn |-> 0, branch |-> "new"]
       ELSE IF windowElapsed(record, now)
       THEN /\ rateLimitMap' = set(rateLimitMap, key,
                                    [count |-> 1, resetTime |-> now + windowMs])
            /\ rl' = [op |-> "checkRateLimit", key |-> key, allowed |-> TRUE,
                      remaining |-> maxAttempts - 1, resetIn |-> 0, branch |-> "restart"]
       ELSE IF limitReached(record, maxAttempts)
       THEN /\ rateLimitMap' = rateLimitMap
            /\ rl' = [op |-> "checkRateLimit", key |-> key, allowed |-> FALSE,
                      remaining |-> 0, resetIn |-> resetInMinutes(record, now),
                      branch |-> "reject"]
       ELSE /\ rateLimitMap' = set(rateLimitMap, key, Counted(record))
            /\ rl' = [op |-> "checkRateLimit", key |-> key, allowed |-> TRUE,
                      remaining |-> maxAttempts - (record.count + 1), resetIn |-> 0,
                      branch |-> "count"]
    /\ win' = [win EXCEPT ![key] = CountCall(win[key], now, maxAttempts, windowMs)]
    /\ UNCHANGED <<now, otps, nextId, last, hist, cfg>>

CheckRateLimit ==
    /\ \E k \in Keys : checkRateLimit(k, cfg.maxAttempts, cfg.windowMs)
    /\ UNCHANGED <<flowVars, calls>>

\* the limiter with the keys of two operations and of two identities
FrameKeys == {"signup:a@gmail.com", "login:a@gmail.com", "signup:b@gmail.com"}
CheckKey ==
    /\ \E k \in FrameKeys : checkRateLimit(k, cfg.maxAttempts, cfg.windowMs)
    /\ UNCHANGED <<flowVars, calls>>
InitFrame ==
    /\ now = 0
    /\ otps = {}
    /\ nextId = 1
    /\ last = NoCall
    /\ hist = [pr \in Pairs |-> NoHist]
    /\ rateLimitMap = [k \in FrameKeys |-> NoRecord]
    /\ cfg \in [maxAttempts : 1..MaxM, windowMs : 1..MaxW, unit : {1}, creates : {MaxCreates}]
    /\ win = [k \in FrameKeys |-> NoWindow]
    /\ rl = NoLimit
    /\ users = [e \in Emails |-> NoUser]
    /\ tokens = {}
    /\ http = NoRequest
    /\ calls = NoCalls
NextFrame == CheckKey \/ Tick
SpecFrame == InitFrame /\ [][NextFrame]_vars

\* the limiter alone, for every maximum M >= 1 and window W a caller may fix
InitRL ==
    /\ now = 0
    /\ otps = {}
    /\ nextId = 1
    /\ last = NoCall
    /\ hist = [pr \in Pairs |-> NoHist]
    /\ rateLimitMap = [k \in Keys |-> NoRecord]
    /\ cfg \in [maxAttempts : 1..MaxM, windowMs : 1..MaxW, unit : ClockUnits,
                  creates : {MaxCreates}]
    /\ win = [k \in Keys |-> NoWindow]
    /\ rl = NoLimit
    /\ users = [e \in Emails |-> NoUser]
    /\ tokens = {}
    /\ http = NoRequest
    /\ calls = NoCalls

NextRL == CheckRateLimit \/ Tick

SpecRL == InitRL /\ [][NextRL]_vars

----------------------------------------------------------------------------
(* routes/otp-auth.js, routes/google.js and the admin routes: the request   *)
(* handlers. One request is served at a time; a handler that calls the      *)
(* limiter, then createOTP, then the mailer takes one step for each.        *)

\* checkRateLimit(`signup:...`, 3, ...), (`resend:...`, 3, ...), (`forgot:...`, 3, ...)
OtpRequestMax == 3
\* checkRateLimit(`login:${normalizedEmail}`, 5, ...)
LoginMax == 5
\* 15 * 60 * 1000 ms
RateWindowMinutes == 15
\* login: OTP.createOTP(normalizedEmail, 'email_verification', 10)
LoginExpiryMinutes == 10
\* jwt.sign({ email, purpose: 'password_reset' }, ..., { expiresIn: '15m' })
ResetTokenMinutes == 15
\* jwt.sign({ userId }, ..., { expiresIn: '7d' }), in minutes
SessionMinutes == 10080

Names == {"Ann"}
Passwords == {"Passw0rd1", "Passw0rd2"}
NewPasswords == {"Passw0rd2"}

\* `signup:${normalizedEmail}`, `login:...`, `forgot:...`, `resend:${email}:${purpose}`
RateKey(op, email) == <<op, email>>
ResendKey(email, purpose) == <<"resend", email, purpose>>
FlowKeys == {RateKey(op, e) : op \in {"signup", "login", "forgot"}, e \in Emails}
              \cup {ResendKey(e, p) : e \in Emails, p \in Purposes}

\* bcrypt.hash(password, 10) and bcrypt.compare(password, user.password)
bcryptHash(password) == <<"bcrypt", password>>
bcryptCompare(password, hash) == hash = bcryptHash(password)

\* jwt.sign({ userId: user._id }, JWT_SECRET, { expiresIn: '7d' })
SessionToken(email, t) ==
    [kind |-> "session", email |-> email, purpose |-> "none", exp |-> t + SessionMinutes]

\* jwt.sign({ email, purpose: 'password_reset' }, JWT_SECRET, { expiresIn: '15m' })
ResetToken(email, t) ==
    [kind |-> "reset", email |-> email, purpose |-> "password_reset",
     exp |-> t + ResetTokenMinutes]

\* res.status(status).json({ message }) and the end of the handler; `at` is
\* the Date header of the response
Respond(route, email, status, msg) ==
    [NoRequest EXCEPT !.route = route, !.email = email, !.status = status, !.msg = msg,
                      !.at = now]

\* return res.status(429).json({ message: `Too many ... Please try again in
\* ${rateLimit.resetIn} minutes` })
TooManyNoEstimate(route, email, msg, resetIn) == Respond(route, email, 429, msg)
TooMany(route, email, msg, resetIn) ==
    [Respond(route, email, 429, msg) EXCEPT !.retryAfter = resetIn]

\* the handler goes on to its next await
Goto(route, email, purpose, pc) ==
    [NoRequest EXCEPT !.route = route, !.email = email, !.purpose = purpose, !.pc = pc]

\* otpDoc.deleteOne() on the document createOTP returned
deleteOneKept(id) == otps
deleteOne(id) == {d \in otps : d.id # id}

\* User.create({ name, email, password: hashedPassword, isEmailVerified: true, ... })
NewUserUnverified(name, password) ==
    [NoUser EXCEPT !.exists = TRUE, !.name = name, !.password = bcryptHash(password)]
NewVerifiedUser(name, password) ==
    [NoUser EXCEPT !.exists = TRUE, !.name = name, !.password = bcryptHash(password),
                   !.isEmailVerified = TRUE]

\* `user && user.isEmailVerified` after User.findOne({ email })
AlreadyVerifiedNever(user) == FALSE
AlreadyVerified(user) == user.exists /\ user.isEmailVerified

\* signup/verify-otp: the existing unverified user, updated in place
VerifiedInPlace(user, name, password) ==
    [user EXCEPT !.name = name, !.password = bcryptHash(password),
                 !.isEmailVerified = TRUE]

\* POST /signup/request-otp, up to the createOTP call
SignupRequestOtp(email) ==
    /\ http.pc = "idle"
    /\ checkRateLimit(RateKey("signup", email), OtpRequestMax, RateWindowMinutes)
    /\ UNCHANGED calls
    /\ IF ~rl'.allowed
       THEN http' = TooMany("signup/request-otp", email, "Too many OTP requests",
                            rl'.resetIn)
       ELSE IF AlreadyVerified(users[email])
       THEN http' = Respond("signup/request-otp", email, 400,
                            "Email already registered and verified")
       ELSE /\ nextId <= cfg.creates
            /\ http' = Goto("signup/request-otp", email, "email_verification",
                            "signup_create")
    /\ UNCHANGED <<users, tokens>>

\* POST /signup/request-otp: OTP.createOTP(normalizedEmail, 'email_verification', 1)
SignupCreateOtp ==
    /\ http.pc = "signup_create"
    /\ createOTP(http.email, "email_verification", ShortExpiryMinutes)
    /\ http' = [http EXCEPT !.pc = "signup_send"]
    /\ UNCHANGED <<users, tokens>>

\* POST /signup/request-otp: sendVerificationEmail succeeds, or throws and the
\* handler deletes the document and answers 500 (one of three messages)
SignupSendEmail ==
    /\ http.pc = "signup_send"
    /\ \E sent \in BOOLEAN :
         IF sent
         THEN /\ otps' = otps
              /\ http' = [Respond("signup/request-otp", http.email, 200,
                                  "OTP sent to your email")
                            EXCEPT !.mail = "sent", !.expiresIn = 60]
         ELSE /\ otps' = deleteOne(last.id)
              /\ http' = [Respond("signup/request-otp", http.email, 500,
                                  "Failed to send verification email")
                            EXCEPT !.mail = "failed"]
    /\ UNCHANGED <<now, nextId, last, hist, rateLimitMap, cfg, win, rl, users, tokens, calls>>

\* res.status(400).json({ message: otpVerification.message,
\*                        attemptsRemaining: otpVerification.attemptsRemaining })
VerifyFailureGeneric(route, email, result) == Respond(route, email, 400, "Invalid OTP")
VerifyFailure(route, email, result) ==
    [Respond(route, email, 400, result.message)
       EXCEPT !.attemptsRemaining = result.attemptsRemaining]

\* POST /signup/verify-otp
SignupVerifyOtp(name, email, password, otp) ==
    LET user == users[email] IN
    /\ http.pc = "idle"
    /\ verifyOTP(email, otp, "email_verification")
    /\ IF ~last'.success
       THEN /\ http' = VerifyFailure("signup/verify-otp", email, last')
            /\ UNCHANGED <<users, tokens>>
       ELSE IF AlreadyVerified(user)
       THEN /\ http' = Respond("signup/verify-otp", email, 400, "Email already registered")
            /\ UNCHANGED <<users, tokens>>
       ELSE /\ users' = [users EXCEPT ![email] =
                            IF user.exists THEN VerifiedInPlace(user, name, password)
                            ELSE NewVerifiedUser(name, password)]
            /\ tokens' = tokens
            /\ http' = [Respond("signup/verify-otp", email, 201,
                                "Account created successfully")
                          EXCEPT !.token = SessionToken(email, now)]

\* POST /auth/google with a token Google accepts for `email`: the user is
\* created without password (isEmailVerified at its default), or reused
GoogleAuth(email, name) ==
    LET user == users[email] IN
    /\ http.pc = "idle"
    /\ IF user.exists /\ user.isDeleted
       THEN /\ http' = Respond("google", email, 400, "This account has been deleted")
            /\ UNCHANGED <<users, tokens>>
       ELSE /\ users' = [users EXCEPT ![email] =
                            IF user.exists THEN user
                            ELSE [NoUser EXCEPT !.exists = TRUE, !.name = name]]
            /\ tokens' = tokens
            /\ http' = [Respond("google", email, 200, "Google authentication successful")
                          EXCEPT !.token = SessionToken(email, now)]
    /\ UNCHANGED <<now, otps, nextId, last, hist, rateLimitMap, cfg, win, rl, calls>>

\* DELETE /users/:id (admin router, between two requests of the auth router):
\* the soft delete of an existing, not yet deleted user
AdminDeleteUser(email) ==
    /\ http.pc = "idle"
    /\ users[email].exists
    /\ ~users[email].isDeleted
    /\ users' = [users EXCEPT ![email].isDeleted = TRUE]
    /\ UNCHANGED <<now, otps, nextId, last, hist, rateLimitMap, cfg, win, rl, tokens, http, calls>>

\* POST /resend-otp, up to the createOTP call
ResendOtp(email, purpose) ==
    /\ http.pc = "idle"
    /\ checkRateLimit(ResendKey(email, purpose), OtpRequestMax, RateWindowMinutes)
    /\ UNCHANGED calls
    /\ IF ~rl'.allowed
       THEN http' = TooMany("resend-otp", email, "Too many OTP requests", rl'.resetIn)
       ELSE /\ nextId <= cfg.creates
            /\ http' = Goto("resend-otp", email, purpose, "resend_create")
    /\ UNCHANGED <<users, tokens>>

\* POST /resend-otp: OTP.createOTP(normalizedEmail, purpose, 1), the mail (a
\* failure is only logged) and the response
ResendCreateOtp ==
    /\ http.pc = "resend_create"
    /\ createOTP(http.email, http.purpose, ShortExpiryMinutes)
    /\ \E sent \in BOOLEAN :
         http' = [Respond("resend-otp", http.email, 200, "OTP sent successfully")
                    EXCEPT !.purpose = http.purpose,
                           !.mail = IF sent THEN "sent" ELSE "failed",
                           !.expiresIn = 60]
    /\ UNCHANGED <<users, tokens>>

\* POST /login: the order of the checks after the limiter
LoginDecisionVerifiedFirst(user, password) ==
    IF ~user.exists THEN "no_user"
    ELSE IF ~user.isEmailVerified THEN "unverified"
    ELSE IF user.isDeleted THEN "deleted"
    ELSE IF ~bcryptCompare(password, user.password) THEN "bad_password"
    ELSE "ok"
LoginDecisionPasswordFirst(user, password) ==
    IF ~user.exists THEN "no_user"
    ELSE IF user.isDeleted THEN "deleted"
    ELSE IF ~bcryptCompare(password, user.password) THEN "bad_password"
    ELSE IF ~user.isEmailVerified THEN "unverified"
    ELSE "ok"
LoginDecision(user, password) ==
    IF ~user.exists THEN "no_user"
    ELSE IF user.isDeleted THEN "deleted"
    ELSE IF ~user.isEmailVerified THEN "unverified"
    ELSE IF ~bcryptCompare(password, user.password) THEN "bad_password"
    ELSE "ok"

\* POST /login: the 401 of `if (!user)`
NoUserResponseRevealing(email) == Respond("login", email, 404, "No account found")
NoUserResponse(email) == Respond("login", email, 401, "Invalid email or password")
\* POST /login: the 401 of `if (!isPasswordValid)`
BadPasswordResponse(email) == Respond("login", email, 401, "Invalid email or password")

\* POST /login, up to the createOTP call of the unverified branch
Login(email, password) ==
    LET user == users[email]
        decision == LoginDecision(user, password) IN
    /\ http.pc = "idle"
    /\ checkRateLimit(RateKey("login", email), LoginMax, RateWindowMinutes)
    /\ UNCHANGED calls
    /\ IF ~rl'.allowed
       THEN /\ http' = TooMany("login", email, "Too many login attempts", rl'.resetIn)
            /\ UNCHANGED <<users, tokens>>
       ELSE IF decision = "no_user"
       THEN /\ http' = NoUserResponse(email)
            /\ UNCHANGED <<users, tokens>>
       ELSE IF decision = "deleted"
       THEN /\ http' = Respond("login", email, 403, "This account has been deleted")
            /\ UNCHANGED <<users, tokens>>
       ELSE IF decision = "unverified"
       THEN /\ nextId <= cfg.creates
            /\ http' = Goto("login", email, "email_verification", "login_create")
            /\ UNCHANGED <<users, tokens>>
       ELSE IF decision = "bad_password"
       THEN /\ http' = BadPasswordResponse(email)
            /\ UNCHANGED <<users, tokens>>
       ELSE /\ users' = [users EXCEPT ![email].lastLoginAt = now]
            /\ tokens' = tokens
            /\ http' = [Respond("login", email, 200, "Login successful")
                          EXCEPT !.token = SessionToken(email, now)]

\* POST /login, unverified user: OTP.createOTP(normalizedEmail,
\* 'email_verification', 10), the mail (a failure is only logged) and the 403
LoginCreateOtp ==
    /\ http.pc = "login_create"
    /\ createOTP(http.email, "email_verification", LoginExpiryMinutes)
    /\ \E sent \in BOOLEAN :
         http' = [Respond("login", http.email, 403,
                          "Email not verified. A new verification OTP has been sent")
                    EXCEPT !.purpose = "email_verification",
                           !.mail = IF sent THEN "sent" ELSE "failed",
                           !.requiresVerification = TRUE]
    /\ UNCHANGED <<users, tokens>>

\* POST /forgot-password/request-otp: the user checks after the limiter
ForgotGateOpen(user) == "create"
ForgotGate(user) ==
    IF ~user.exists THEN "no_user"
    ELSE IF user.isDeleted THEN "deleted"
    ELSE "create"

\* POST /forgot-password/request-otp, up to the createOTP call
ForgotRequestOtp(email) ==
    LET gate == ForgotGate(users[email]) IN
    /\ http.pc = "idle"
    /\ checkRateLimit(RateKey("forgot", email), OtpRequestMax, RateWindowMinutes)
    /\ UNCHANGED calls
    /\ IF ~rl'.allowed
       THEN http' = TooMany("forgot-password/request-otp", email,
                            "Too many password reset requests", rl'.resetIn)
       ELSE IF gate = "no_user"
       THEN http' = Respond("forgot-password/request-otp", email, 404,
                            "No account found with this email address")
       ELSE IF gate = "deleted"
       THEN http' = Respond("forgot-password/request-otp", email, 403,
                            "This account has been deleted. Please contact support.")
       ELSE /\ nextId <= cfg.creates
            /\ http' = Goto("forgot-password/request-otp", email, "password_reset",
                            "forgot_create")
    /\ UNCHANGED <<users, tokens>>

\* POST /forgot-password/request-otp: OTP.createOTP(normalizedEmail,
\* 'password_reset', 1), the mail (a failure is only logged) and the response
ForgotCreateOtp ==
    /\ http.pc = "forgot_create"
    /\ createOTP(http.email, "password_reset", ShortExpiryMinutes)
    /\ \E sent \in BOOLEAN :
         http' = [Respond("forgot-password/request-otp", http.email, 200,
                          "Password reset OTP sent to your email")
                    EXCEPT !.purpose = "password_reset",
                           !.mail = IF sent THEN "sent" ELSE "failed",
                           !.expiresIn = 60]
    /\ UNCHANGED <<users, tokens>>

\* POST /forgot-password/verify-otp
ForgotVerifyOtp(email, otp) ==
    /\ http.pc = "idle"
    /\ verifyOTP(email, otp, "password_reset")
    /\ IF ~last'.success
       THEN /\ http' = VerifyFailure("forgot-password/verify-otp", email, last')
            /\ tokens' = tokens
       ELSE /\ tokens' = tokens \cup {ResetToken(email, now)}
            /\ http' = [Respond("forgot-password/verify-otp", email, 200,
                                "OTP verified. You can now reset your password")
                          EXCEPT !.token = ResetToken(email, now)]
    /\ users' = users

\* what the client presents as resetToken: a token this server issued, a token
\* not signed with JWT_SECRET, or one signed with it for another purpose
Signed(token) == [signed |-> TRUE, tok |-> token]
Forged(email, t) == [signed |-> FALSE, tok |-> ResetToken(email, t)]
OtherPurpose(email, t) ==
    Signed([kind |-> "reset", email |-> email, purpose |-> "email_verification",
            exp |-> t + ResetTokenMinutes])
Credentials ==
    {Signed(token) : token \in tokens}
      \cup {Signed(SessionToken(e, now)) : e \in {x \in Emails : users[x].exists}}
      \cup {Forged(e, now) : e \in Emails} \cup {OtherPurpose(e, now) : e \in Emails}

\* jwt.verify(resetToken, process.env.JWT_SECRET) does not throw
jwtVerifyNoExpiry(cred, t) == cred.signed
jwtVerify(cred, t) == cred.signed /\ t < cred.tok.exp

\* `decoded.purpose !== 'password_reset'` is false
PurposeAny(decoded) == TRUE
PurposeIsReset(decoded) == decoded.purpose = "password_reset"

\* reset-password: the fields written before user.save()
PasswordResetKeepLockout(user, newPassword, t) ==
    [user EXCEPT !.password = bcryptHash(newPassword), !.passwordResetAt = t]
PasswordReset(user, newPassword, t) ==
    [user EXCEPT !.password = bcryptHash(newPassword), !.passwordResetAt = t,
                 !.failedLoginAttempts = 0, !.accountLockedUntil = NoTime]

\* POST /reset-password
ResetPassword(cred, newPassword) ==
    LET decoded == cred.tok
        user == users[decoded.email] IN
    /\ http.pc = "idle"
    /\ IF ~jwtVerify(cred, now)
       THEN /\ http' = Respond("reset-password", "", 401,
                               "Invalid or expired reset token")
            /\ users' = users
       ELSE IF ~PurposeIsReset(decoded)
       THEN /\ http' = Respond("reset-password", "", 401,
                               "Invalid reset token")
            /\ users' = users
       ELSE IF ~user.exists
       THEN /\ http' = Respond("reset-password", "", 404, "User not found")
            /\ users' = users
       ELSE IF user.isDeleted
       THEN /\ http' = Respond("reset-password", "", 403,
                               "This account has been deleted")
            /\ users' = users
       ELSE /\ users' = [users EXCEPT ![decoded.email] =
                            PasswordReset(user, newPassword, now)]
            /\ http' = Respond("reset-password", "", 200,
                               "Password reset successfully")
    /\ UNCHANGED <<now, otps, nextId, last, hist, rateLimitMap, cfg, win, rl, tokens, calls>>

\* between two requests: a minute passes, a quarter of an hour passes, or the
\* TTL monitor runs
Idle == http.pc = "idle"
FlowTick == Idle /\ Tick
FlowReap == Idle /\ TTLReap
Sleep ==
    /\ Idle
    /\ now < MaxTime
    /\ now' = now + RateWindowMinutes
    /\ UNCHANGED <<otps, nextId, last, hist, rateLimitMap, cfg, win, rl, users, tokens,
                   http, calls>>

\* a user Google sign-in created, a user signup verified, and each soft-deleted
GoogleUser == [NoUser EXCEPT !.exists = TRUE, !.name = "Ann"]
KnownUsers ==
    {NoUser, GoogleUser, [GoogleUser EXCEPT !.isDeleted = TRUE],
     NewVerifiedUser("Ann", "Passw0rd1"),
     [NewVerifiedUser("Ann", "Passw0rd1") EXCEPT !.isDeleted = TRUE]}

InitFlow ==
    /\ now = 0
    /\ otps = {}
    /\ nextId = 1
    /\ last = NoCall
    /\ hist = [pr \in Pairs |-> NoHist]
    /\ rateLimitMap = [k \in FlowKeys |-> NoRecord]
    /\ cfg = NoCfg
    /\ win = [k \in FlowKeys |-> NoWindow]
    /\ rl = NoLimit
    /\ tokens = {}
    /\ http = NoRequest
    /\ calls = NoCalls

\* sign-up: request, verify and resend, with Google sign-in and the admin's
\* soft delete as the other writers of the user collection
InitSignup == InitFlow /\ users = [e \in Emails |-> NoUser]

SignupRequest == \E e \in Emails : SignupRequestOtp(e)
ForgotVerify == \E e \in Emails, c \in Codes : ForgotVerifyOtp(e, c)
SignupVerify ==
    \E n \in Names, e \in Emails, pw \in Passwords, c \in Codes : SignupVerifyOtp(n, e, pw, c)
Google == \E e \in Emails, n \in Names : GoogleAuth(e, n)
AdminDelete == \E e \in Emails : AdminDeleteUser(e)

NextSignup ==
    \/ SignupRequest \/ SignupCreateOtp \/ SignupSendEmail \/ SignupVerify
    \/ Google \/ AdminDelete \/ FlowTick \/ FlowReap

SpecSignup == InitSignup /\ [][NextSignup]_vars

\* resend, which reads no user; the code it issues is then offered to
\* forgot-password/verify-otp
Resend == \E e \in Emails, p \in Purposes : ResendOtp(e, p)

NextResend == Resend \/ ResendCreateOtp \/ ForgotVerify \/ FlowTick \/ FlowReap

SpecResend == InitSignup /\ [][NextResend]_vars

\* login, for every user the collection may hold
InitLogin == InitFlow /\ users \in [Emails -> KnownUsers]

LoginRequest == \E e \in Emails, pw \in Passwords : Login(e, pw)

NextLogin ==
    \/ LoginRequest \/ LoginCreateOtp \/ SignupVerify \/ AdminDelete
    \/ FlowTick \/ FlowReap \/ Sleep

SpecLogin == InitLogin /\ [][NextLogin]_vars

\* forgot-password/request-otp for every user the collection may hold, next to
\* resend-otp, the other writer of password_reset records, and the admin's
\* soft delete
InitForgot == InitFlow /\ users \in [Emails -> KnownUsers]

ForgotRequest == \E e \in Emails : ForgotRequestOtp(e)
ResendReset == \E e \in Emails : ResendOtp(e, "password_reset")

NextForgot ==
    \/ ForgotRequest \/ ForgotCreateOtp \/ ResendReset \/ ResendCreateOtp
    \/ AdminDelete \/ FlowTick \/ FlowReap

SpecForgot == InitForgot /\ [][NextForgot]_vars

\* password reset from end to end: request, verify, reset, with the admin's
\* soft delete; the clock moves by quarters of an hour, the lifetime of a
\* reset token
InitReset == InitFlow /\ users \in [Emails -> {u \in KnownUsers : ~u.isDeleted}]

Reset == \E cred \in Credentials, pw \in NewPasswords : ResetPassword(cred, pw)

NextReset ==
    \/ ForgotRequest \/ ForgotCreateOtp \/ ForgotVerify \/ Reset \/ AdminDelete \/ Sleep

SpecReset == InitReset /\ [][NextReset]_vars

\* verification and reset of a password with a clock that moves to the last minute
\* of a reset token issued at the start, and by the minute from there
Elapse ==
    /\ Idle
    /\ now <= ResetTokenMinutes
    /\ now' = IF now < ResetTokenMinutes - 1 THEN ResetTokenMinutes - 1 ELSE now + 1
    /\ UNCHANGED <<otps, nextId, last, hist, rateLimitMap, cfg, win, rl, users, tokens,
                   http, calls>>

\* the code comes from createOTP, whichever endpoint calls it
IssueResetCode ==
    /\ Idle
    /\ \E e \in Emails : createOTP(e, "password_reset", ShortExpiryMinutes)
    /\ UNCHANGED flowVars

NextRecover == IssueResetCode \/ ForgotVerify \/ Reset \/ Elapse

\* a user who signed up with a password
InitRecover == InitFlow /\ users = [e \in Emails |-> NewVerifiedUser("Ann", "Passw0rd1")]

SpecRecover == InitRecover /\ [][NextRecover]_vars

----------------------------------------------------------------------------
(* routes/otp-auth.js: input validation. A string of the request body is a  *)
(* sequence of characters; the empty sequence is the missing (or empty)     *)
(* field, which `!field` rejects.                                           *)

Whitespace == {" ", "\t"}
UpperCase == {"A", "G", "P", "S", "W", "R", "D"}
LowerCaseLetters == {"a", "b", "c", "d", "g", "i", "l", "m", "o", "p", "r", "s", "w", "x"}
Digits == {"0", "1", "2"}

\* String.prototype.toLowerCase(), character by character
LowerOf(c) ==
    CASE c = "A" -> "a" [] c = "G" -> "g" [] c = "P" -> "p" [] c = "S" -> "s"
      [] c = "W" -> "w" [] c = "R" -> "r" [] c = "D" -> "d" [] OTHER -> c
toLowerCase(s) == [i \in 1..Len(s) |-> LowerOf(s[i])]

\* String.prototype.trim()
RECURSIVE trimStart(_)
trimStart(s) ==
    IF s # <<>> /\ Head(s) \in Whitespace THEN trimStart(Tail(s)) ELSE s
RECURSIVE trimEnd(_)
trimEnd(s) ==
    IF s # <<>> /\ s[Len(s)] \in Whitespace THEN trimEnd(SubSeq(s, 1, Len(s) - 1)) ELSE s
trim(s) == trimEnd(trimStart(s))

\* email.toLowerCase().trim()
normalize(email) == trim(toLowerCase(email))

\* the string the characters spell
RECURSIVE Spell(_)
Spell(s) == IF s = <<>> THEN "" ELSE Head(s) \o Spell(Tail(s))

\* /^[^\s@]+@[^\s@]+\.[^\s@]+$/.test(email)
isValidEmail(email) ==
    \E i \in 1..Len(email), j \in 1..Len(email) :
       /\ email[i] = "@" /\ email[j] = "."
       /\ 1 < i /\ i + 1 < j /\ j < Len(email)
       /\ \A k \in (1..Len(email)) \ {i} : email[k] \notin Whitespace \cup {"@"}

\* email.toLowerCase().endsWith('@gmail.com')
GmailSuffix == <<"@", "g", "m", "a", "i", "l", ".", "c", "o", "m">>
isGmailAddress(email) ==
    /\ Len(email) >= Len(GmailSuffix)
    /\ SubSeq(toLowerCase(email), Len(email) - Len(GmailSuffix) + 1, Len(email)) = GmailSuffix

\* password.length >= 8 && /[A-Z]/ && /[a-z]/ && /[0-9]/
MinPasswordLength == 8
isStrongPasswordAny(password) == TRUE
isStrongPassword(password) ==
    /\ Len(password) >= MinPasswordLength
    /\ \E i \in 1..Len(password) : password[i] \in UpperCase
    /\ \E i \in 1..Len(password) : password[i] \in LowerCaseLetters
    /\ \E i \in 1..Len(password) : password[i] \in Digits

\* request bodies: emails
GmailA == <<"a", "@", "g", "m", "a", "i", "l", ".", "c", "o", "m">>
GoodEmails ==
    {GmailA, <<" ", "A", "@", "G", "m", "a", "i", "l", ".", "c", "o", "m", " ">>}
BadSyntaxEmails ==
    {<<"a", "g", "m", "a", "i", "l", ".", "c", "o", "m">>,
     <<"a", "@", "g", "m", "a", "i", "l">>,
     <<"a", " ", "b", "@", "g", "m", "a", "i", "l", ".", "c", "o", "m">>}
OtherDomainEmails == {<<"a", "@", "x", ".", "c", "o", "m">>}
Missing == <<>>
BodyEmails == GoodEmails \cup BadSyntaxEmails \cup OtherDomainEmails \cup {Missing}

\* request bodies: passwords
StrongPasswords == {<<"P", "a", "s", "s", "w", "0", "r", "d", "2">>}
WeakPasswords ==
    {<<"P", "a", "s", "s", "w", "0", "r">>,
     <<"p", "a", "s", "s", "w", "0", "r", "d">>,
     <<"P", "A", "S", "S", "W", "0", "R", "D">>,
     <<"P", "a", "s", "s", "w", "o", "r", "d">>}
BodyPasswords == StrongPasswords \cup WeakPasswords \cup {Missing}
BodyNames == Names \cup {""}
BodyPurposes == Purposes \cup {"login", ""}

\* return res.status(400).json({ message }) of a validation check: nothing
\* but the response
Reject(route, msg) ==
    /\ http' = Respond(route, "", 400, msg)
    /\ UNCHANGED <<now, otps, nextId, last, hist, rateLimitMap, cfg, win, rl, users, tokens, calls>>

\* POST /signup/request-otp with its validation of req.body
SignupRequestBody(body) ==
    /\ http.pc = "idle"
    /\ IF body.name = "" \/ body.email = Missing \/ body.password = Missing
       THEN Reject("signup/request-otp", "All fields are required")
       ELSE IF ~isValidEmail(normalize(body.email))
       THEN Reject("signup/request-otp", "Invalid email format")
       ELSE IF ~isGmailAddress(normalize(body.email))
       THEN Reject("signup/request-otp", "Only Gmail addresses are allowed for registration")
       ELSE IF ~isStrongPassword(body.password)
       THEN Reject("signup/request-otp", "Password must be at least 8 characters and include uppercase, lowercase, and a number")
       ELSE SignupRequestOtp(Spell(normalize(body.email)))

\* POST /resend-otp with its validation of req.body (the email is normalized
\* but its syntax is not checked)
PurposeAllowed(purpose) == purpose \in {"email_verification", "password_reset"}
ResendBody(body) ==
    /\ http.pc = "idle"
    /\ IF body.email = Missing \/ body.purpose = ""
       THEN Reject("resend-otp", "Email and purpose are required")
       ELSE IF ~PurposeAllowed(body.purpose)
       THEN Reject("resend-otp", "Invalid purpose")
       ELSE ResendOtp(Spell(normalize(body.email)), body.purpose)

\* POST /reset-password with its validation of req.body
ResetBody(body) ==
    /\ http.pc = "idle"
    /\ IF body.resetToken = Missing \/ body.newPassword = Missing
       THEN Reject("reset-password", "Reset token and new password are required")
       ELSE IF ~isStrongPassword(body.newPassword)
       THEN Reject("reset-password", "Password must be at least 8 characters and include uppercase, lowercase, and a number")
       ELSE ResetPassword(body.resetToken, Spell(body.newPassword))

\* the three validating routes over every body, with the steps that follow an
\* accepted request
SignupBody ==
    \E n \in BodyNames, e \in BodyEmails, pw \in BodyPasswords :
       SignupRequestBody([name |-> n, email |-> e, password |-> pw])
ResendAnyBody ==
    \E e \in GoodEmails \cup {Missing}, p \in BodyPurposes :
       ResendBody([email |-> e, purpose |-> p])
ResetAnyBody ==
    \E cred \in Credentials \cup {Missing}, pw \in BodyPasswords :
       ResetBody([resetToken |-> cred, newPassword |-> pw])

InitValidate == InitFlow /\ users \in [Emails -> KnownUsers]

NextValidate ==
    \/ SignupBody \/ SignupCreateOtp \/ SignupSendEmail
    \/ ResendAnyBody \/ ResendCreateOtp \/ ResetAnyBody

SpecValidate == InitValidate /\ [][NextValidate]_vars

\* POST /signup/verify-otp with its validation of req.body: the four fields
\* must be present; the email is normalized; nothing else is checked
NoOtp == 0
SignupVerifyBody(body) ==
    /\ http.pc = "idle"
    /\ IF body.name = "" \/ body.email = Missing \/ body.password = Missing
          \/ body.otp = NoOtp
       THEN Reject("signup/verify-otp", "All fields are required")
       ELSE SignupVerifyOtp(body.name, Spell(normalize(body.email)),
                            Spell(body.password), body.otp)

\* signup from request to verification over every body, the code being the one
\* of signup/request-otp or of resend-otp
TooShort == <<"P", "a", "s", "s", "w", "0", "r">>
VerifyPasswords == StrongPasswords \cup {TooShort, Missing}
SignupGoodBody ==
    \E e \in GoodEmails, pw \in VerifyPasswords :
       SignupRequestBody([name |-> "Ann", email |-> e, password |-> pw])
SignupVerifyAnyBody ==
    \E n \in BodyNames, e \in GoodEmails \cup {Missing}, pw \in VerifyPasswords,
       c \in Codes \cup {NoOtp} :
       SignupVerifyBody([name |-> n, email |-> e, password |-> pw, otp |-> c])
ResendVerificationBody ==
    \E e \in GoodEmails : ResendBody([email |-> e, purpose |-> "email_verification"])

NextVerifyBody ==
    \/ SignupGoodBody \/ SignupCreateOtp \/ SignupSendEmail
    \/ ResendVerificationBody \/ ResendCreateOtp
    \/ SignupVerifyAnyBody

SpecVerifyBody == InitSignup /\ [][NextVerifyBody]_vars

----------------------------------------------------------------------------
(* The four rate-limited endpoints next to each other: signup/request-otp,  *)
(* resend-otp, login and forgot-password/request-otp, for every user the    *)
(* collection may hold; the clock moves by the length of a limiter window.  *)

LoginOnce == \E e \in Emails : Login(e, "Passw0rd1")

NextLimit ==
    \/ SignupRequest \/ SignupCreateOtp \/ SignupSendEmail
    \/ ResendReset \/ ResendCreateOtp
    \/ LoginOnce \/ LoginCreateOtp
    \/ ForgotRequest \/ ForgotCreateOtp
    \/ Sleep

SpecLimit == InitLogin /\ [][NextLimit]_vars

----------------------------------------------------------------------------
(* Signup against users that already exist: signup/request-otp and          *)
(* signup/verify-otp next to resend-otp, which issues an email_verification *)
(* code whoever owns the email.                                             *)

ResendVerification == \E e \in Emails : ResendOtp(e, "email_verification")

NextOwned ==
    \/ SignupRequest \/ SignupCreateOtp \/ SignupSendEmail
    \/ ResendVerification \/ ResendCreateOtp
    \/ SignupVerify

SpecOwned == InitLogin /\ [][NextOwned]_vars

----------------------------------------------------------------------------
(* Every endpoint that answers with a session token (signup/verify-otp,      *)
(* login, Google sign-in) next to the admin's soft delete, from an empty     *)
(* collection.  No clock: the lifetime of a code plays no part here.         *)

NextAccounts ==
    \/ SignupRequest \/ SignupCreateOtp \/ SignupSendEmail \/ SignupVerify
    \/ LoginRequest \/ LoginCreateOtp
    \/ Google \/ AdminDelete

SpecAccounts == InitSignup /\ [][NextAccounts]_vars

----------------------------------------------------------------------------
(* The three endpoints that issue email_verification codes, signup/request-  *)
(* otp, resend-otp and login, for an address whose user exists unverified,   *)
(* within one minute: every call falls into one window of every key.         *)

\* room for every call the three windows allow, and for more
MaxIssued == OtpRequestMax + OtpRequestMax + LoginMax + MaxCreates

InitBudget ==
    /\ now = 0
    /\ otps = {}
    /\ nextId = 1
    /\ last = NoCall
    /\ hist = [pr \in Pairs |-> NoHist]
    /\ rateLimitMap = [k \in FlowKeys |-> NoRecord]
    /\ cfg = [NoCfg EXCEPT !.creates = MaxIssued]
    /\ win = [k \in FlowKeys |-> NoWindow]
    /\ rl = NoLimit
    /\ users = [e \in Emails |-> GoogleUser]
    /\ tokens = {}
    /\ http = NoRequest
    /\ calls = NoCalls

NextBudget ==
    \/ SignupRequest \/ SignupCreateOtp \/ SignupSendEmail
    \/ ResendVerification \/ ResendCreateOtp
    \/ LoginOnce \/ LoginCreateOtp

SpecBudget == InitBudget /\ [][NextBudget]_vars

----------------------------------------------------------------------------
(* The OTP store under calls for three identities: one email under both      *)
(* purposes and a second email.  No clock: expiry plays no part here.        *)

OtherEmail == "b@gmail.com"
TwoEmails == Emails \cup {OtherEmail}
Identities ==
    {pr \in TwoEmails \X Purposes : pr[1] \in Emails \/ pr[2] = "email_verification"}

InitTwo ==
    /\ now = 0
    /\ otps = {}
    /\ nextId = 1
    /\ last = NoCall
    /\ hist = [pr \in Identities |-> NoHist]
    /\ rateLimitMap = [k \in Keys |-> NoRecord]
    /\ cfg = NoCfg
    /\ win = [k \in Keys |-> NoWindow]
    /\ rl = NoLimit
    /\ users = [e \in Emails |-> NoUser]
    /\ tokens = {}
    /\ http = NoRequest
    /\ calls = NoCalls

CreateTwo ==
    /\ \E pr \in Identities : createOTP(pr[1], pr[2], ShortExpiryMinutes)
    /\ UNCHANGED flowVars
VerifyTwo ==
    /\ \E pr \in Identities, c \in Codes : verifyOTP(pr[1], c, pr[2])
    /\ UNCHANGED flowVars

NextTwo == CreateTwo \/ VerifyTwo

SpecTwo == InitTwo /\ [][NextTwo]_vars

----------------------------------------------------------------------------
(* models/OTP.js: verifyOTP as its awaits run it.  A call first awaits       *)
(* findOne and then works on the document it loaded: the expiry, attempts   *)
(* and code checks read the loaded copy, and the call's second await is the *)
(* deleteOne or the save of that copy.  Calls of two callers interleave at  *)
(* the awaits.  save() writes the paths the call modified ($set on the      *)
(* document's _id, no version check) and fails when the document is gone.   *)

\* await this.findOne({ email, purpose, verified: false }).sort({ createdAt: -1 })
\* (a call that finds nothing returns 'OTP not found or already used' and
\* changes nothing)
FindOne(w, email, otp, purpose) ==
    /\ calls.proc[w].pc = "idle"
    /\ Unverified(email, purpose) # {}
    /\ \E otpDoc \in MostRecent(Unverified(email, purpose)) :
         calls' = [calls EXCEPT !.proc[w] =
                      [pc |-> "loaded", email |-> email, purpose |-> purpose,
                       otp |-> otp, doc |-> otpDoc]]
    /\ UNCHANGED <<now, otps, nextId, last, hist, rateLimitMap, cfg, win, rl, flowVars>>

\* the stored document after save() of the loaded copy: the modified paths are
\* written over whatever the store holds
SavedOver(stored, copy) ==
    [stored EXCEPT !.attempts = copy.attempts, !.verified = copy.verified]

\* the rest of the call: the checks on the loaded copy, then deleteOne or save
CheckAndWrite(w) ==
    LET call == calls.proc[w]
        otpDoc == call.doc
        inStore == {d \in otps : d.id = otpDoc.id}
        back == [calls EXCEPT !.proc[w] = NoFlight] IN
    /\ call.pc = "loaded"
    /\ IF isExpired(otpDoc, now) \/ hasExceededAttempts(otpDoc)
       THEN /\ otps' = otps \ inStore
            /\ calls' = back
       ELSE IF inStore = {}
       THEN /\ otps' = otps
            /\ calls' = back
       ELSE IF otpDoc.otp # call.otp
       THEN /\ otps' = {IF d.id = otpDoc.id THEN SavedOver(d, MismatchSave(otpDoc)) ELSE d
                          : d \in otps}
            /\ calls' = [back EXCEPT !.wrong[otpDoc.id] = Min(@ + 1, MaxAttempts + 1)]
       ELSE /\ otps' = {IF d.id = otpDoc.id THEN SavedOver(d, MatchSave(otpDoc)) ELSE d
                          : d \in otps}
            /\ calls' = [back EXCEPT !.ok[otpDoc.id] = Min(@ + 1, 2)]
    /\ UNCHANGED <<now, nextId, last, hist, rateLimitMap, cfg, win, rl, flowVars>>

\* the calls of forgot-password/verify-otp and of the endpoints that issue its
\* code
IssueReset ==
    /\ \E e \in Emails : createOTP(e, "password_reset", ShortExpiryMinutes)
    /\ UNCHANGED flowVars
Find == \E w \in Callers, e \in Emails, c \in Codes : FindOne(w, e, c, "password_reset")
Write == \E w \in Callers : CheckAndWrite(w)

NextConc == IssueReset \/ Find \/ Write

SpecConc == Init /\ [][NextConc]_vars

----------------------------------------------------------------------------
(* models/OTP.js: createOTP as its awaits run it.  A call first awaits      *)
(* deleteMany and then awaits create; calls of two callers interleave at    *)
(* the awaits.                                                              *)

\* await this.deleteMany({ email, purpose, verified: false })
DeleteManyStep(w, email, purpose) ==
    /\ calls.proc[w].pc = "idle"
    /\ otps' = deleteMany(email, purpose)
    /\ calls' = [calls EXCEPT !.proc[w] =
                    [NoFlight EXCEPT !.pc = "deleted", !.email = email,
                                     !.purpose = purpose]]
    /\ UNCHANGED <<now, nextId, last, hist, rateLimitMap, cfg, win, rl, flowVars>>

\* generateOTP(), expiresAt, await this.create({ email, otp, purpose, expiresAt })
CreateStep(w, expiryMinutes) ==
    LET call == calls.proc[w] IN
    /\ call.pc = "deleted"
    /\ nextId <= cfg.creates
    /\ \E otp \in generateOTP :
         /\ otps' = otps \cup {[id |-> nextId, email |-> call.email, otp |-> otp,
                                purpose |-> call.purpose, attempts |-> 0,
                                expiresAt |-> now + expiryMinutes,
                                verified |-> FALSE, createdAt |-> now]}
         /\ last' = [op |-> "createOTP", email |-> call.email, purpose |-> call.purpose,
                     otp |-> otp, id |-> nextId, success |-> TRUE,
                     message |-> "created", attemptsRemaining |-> NoRemaining]
    /\ nextId' = nextId + 1
    /\ calls' = [calls EXCEPT !.proc[w] = NoFlight]
    /\ UNCHANGED <<now, hist, rateLimitMap, cfg, win, rl, flowVars>>

DeleteOld == \E w \in Callers, e \in Emails, p \in Purposes : DeleteManyStep(w, e, p)
CreateNew == \E w \in Callers : CreateStep(w, ShortExpiryMinutes)

NextIssue == DeleteOld \/ CreateNew \/ VerifyOTP

SpecIssue == Init /\ [][NextIssue]_vars

----------------------------------------------------------------------------
(* routes/otp-auth.js: handlers of two requests interleaved.  A handler     *)
(* runs from the arrival of its request to its first await without a break: *)
(* that stretch holds the whole of checkRateLimit, which awaits nothing.    *)
(* A rejected request is answered at once; an allowed one is suspended at   *)
(* its database call, where the other handler may run.                      *)

\* the request arrives: checkRateLimit(key, ...) up to `await User.findOne`,
\* `await OTP.createOTP` or the 429
Arrive(w, key) ==
    /\ calls.proc[w].pc = "idle"
    /\ checkRateLimit(key, cfg.maxAttempts, cfg.windowMs)
    /\ calls' = [calls EXCEPT !.proc[w].pc = IF rl'.allowed THEN "awaiting" ELSE "idle"]
    /\ UNCHANGED flowVars

\* the awaited call returns and the handler answers
Resume(w) ==
    /\ calls.proc[w].pc = "awaiting"
    /\ calls' = [calls EXCEPT !.proc[w].pc = "idle"]
    /\ UNCHANGED <<now, otps, nextId, last, hist, rateLimitMap, cfg, win, rl, flowVars>>

Arrival == \E w \in Callers, k \in Keys : Arrive(w, k)
Return == \E w \in Callers : Resume(w)

NextAsync == Arrival \/ Return \/ Tick

SpecAsync == InitRL /\ [][NextAsync]_vars

----------------------------------------------------------------------------
(* routes/otp-auth.js: the limiter for one key with the times of the calls   *)
(* it allowed.  Here `calls` is that log, the allowed calls of the last      *)
(* windowMs + 1 ticks in the order they were made; the clock runs over       *)
(* enough ticks for two windows and the boundary between them.               *)

BurstKey == "signup:a@gmail.com"

\* the part of the log that an interval of windowMs + 1 ticks ending at t holds
Kept(log, t) == SelectSeq(log, LAMBDA x : x >= t - cfg.windowMs - 1)

Admit ==
    /\ checkRateLimit(BurstKey, cfg.maxAttempts, cfg.windowMs)
    /\ calls' = IF rl'.allowed THEN Append(Kept(calls, now), now) ELSE Kept(calls, now)
    /\ UNCHANGED flowVars

Pass ==
    /\ now < MaxTime + MaxW
    /\ now' = now + 1
    /\ UNCHANGED <<otps, nextId, last, hist, rateLimitMap, cfg, win, rl, flowVars, calls>>

InitBurst ==
    /\ now = 0
    /\ otps = {}
    /\ nextId = 1
    /\ last = NoCall
    /\ hist = [pr \in Pairs |-> NoHist]
    /\ rateLimitMap = [k \in Keys |-> NoRecord]
    /\ cfg \in [maxAttempts : 1..MaxM, windowMs : 1..MaxW, unit : {1}, creates : {MaxCreates}]
    /\ win = [k \in Keys |-> NoWindow]
    /\ rl = NoLimit
    /\ users = [e \in Emails |-> NoUser]
    /\ tokens = {}
    /\ http = NoRequest
    /\ calls = <<>>

NextBurst == Admit \/ Pass

SpecBurst == InitBurst /\ [][NextBurst]_vars

----------------------------------------------------------------------------
(* Properties of the OTP store (Spec) *)

\* one step of verifyOTP(e, c, p) that found document d
Found(e, p) == MostRecent(Unverified(e, p))
Incremented(d) == [d EXCEPT !.attempts = d.attempts + 1]

\* C1: with createOTP executed as one step, every (email, purpose) pair has at
\* most one record with verified = false in every reachable state.
C1_SingleActiveCode ==
    \A pr \in Pairs : Cardinality(Unverified(pr[1], pr[2])) <= 1

\* a second createOTP for a pair has replaced the first, still unverified, code
C1_Witness ==
    /\ last.op = "createOTP"
    /\ last.id = 2
    /\ hist[<<last.email, last.purpose>>].old # {}
    /\ Cardinality(Unverified(last.email, last.purpose)) = 1

\* C2 as stated: once a code has been replaced by a later createOTP for the
\* pair, verifyOTP with that code value never succeeds.
C2_ReplacedCodeNeverVerifies ==
    [][\A e \in Emails, c \in Codes, p \in Purposes :
         (verifyOTP(e, c, p) /\ c \in hist[<<e, p>>].old) => ~last'.success]_vars

\* C2 amended: createOTP leaves the new record as the pair's only unverified
\* one, and a verifyOTP that succeeds always verifies the record of the most
\* recent createOTP for the pair, with that record's code; so a replaced code
\* verifies only when the newer record happens to carry the same value.
C2_OnlyLatestRecordVerifies ==
    [][\A e \in Emails, p \in Purposes :
         /\ \A m \in ExpiryChoices :
              createOTP(e, p, m) =>
                 /\ Cardinality(Unverified(e, p)') = 1
                 /\ \A d \in Unverified(e, p)' : d.id = last'.id /\ d.id = nextId
         /\ \A c \in Codes :
              (verifyOTP(e, c, p) /\ last'.success) =>
                 /\ last'.id = hist[<<e, p>>].id
                 /\ c = hist[<<e, p>>].otp
                 /\ \A d \in otps : (d.email = e /\ d.purpose = p /\ d.id # last'.id)
                                       => d.id < last'.id]_vars

\* the first code was replaced by a different one, and verifyOTP with the
\* first code has just been refused as a mismatch against the new record
C2_Witness ==
    /\ last.op = "verifyOTP"
    /\ last.message = "invalid"
    /\ last.otp \in hist[<<last.email, last.purpose>>].old
    /\ last.otp # hist[<<last.email, last.purpose>>].otp
    /\ last.id = hist[<<last.email, last.purpose>>].id

\* C3 as stated: verifyOTP with a code that differs from the latest
\* unverified record's code always adds exactly one to that record's attempts
\* and leaves it unverified.
C3_MismatchAlwaysIncrements ==
    [][\A e \in Emails, c \in Codes, p \in Purposes :
         \A d \in Found(e, p) :
            (verifyOTP(e, c, p) /\ d.otp # c) =>
               otps' = (otps \ {d}) \cup {Incremented(d)}]_vars

\* C3 amended: verifyOTP with a non-matching code never sets verified; it adds
\* exactly one to attempts when the record is not expired (now <= expiresAt)
\* and its attempts are below 3, and otherwise deletes the record without
\* counting the attempt.
C3_MismatchIncrementsLiveRecord ==
    [][\A e \in Emails, c \in Codes, p \in Purposes :
         \A d \in Found(e, p) :
            (verifyOTP(e, c, p) /\ d.otp # c) =>
               /\ ~last'.success
               /\ \A o \in otps' : o.verified => o \in otps
               /\ IF now <= d.expiresAt /\ d.attempts < MaxAttempts
                  THEN otps' = (otps \ {d}) \cup {Incremented(d)}
                  ELSE otps' = otps \ {d}]_vars

\* a wrong code has been compared with a live record: attempts went up by one
C3_Witness ==
    /\ last.op = "verifyOTP"
    /\ last.message = "invalid"
    /\ \E d \in otps : d.id = last.id /\ ~d.verified /\ d.attempts = 2
                       /\ d.otp # last.otp

\* C4: once the attempts of a pair's record have reached the maximum (3),
\* every later verifyOTP for the pair fails, the correct code included, and
\* leaves no unverified record behind; only a new createOTP ends this.
C4_ExhaustedUntilNewCode ==
    [][\A pr \in Pairs :
         hist[pr].st = "burned" =>
            /\ \A c \in Codes :
                 verifyOTP(pr[1], c, pr[2]) =>
                    /\ ~last'.success
                    /\ last'.message \in {"too_many", "expired", "not_found"}
                    /\ Unverified(pr[1], pr[2])' = {}
            /\ (hist'[pr].st # "burned" =>
                   /\ last'.op = "createOTP"
                   /\ <<last'.email, last'.purpose>> = pr
                   /\ hist'[pr].st = "live")]_vars

\* after three wrong codes the correct code was refused with "too many
\* attempts" and the record is gone
C4_Witness ==
    /\ last.op = "verifyOTP"
    /\ last.message = "too_many"
    /\ hist[<<last.email, last.purpose>>].st = "burned"
    /\ last.otp = hist[<<last.email, last.purpose>>].otp
    /\ last.id = hist[<<last.email, last.purpose>>].id
    /\ Unverified(last.email, last.purpose) = {}

\* C5 as stated: the attempt budget is 5, so a wrong code presented to an
\* unexpired record with fewer than 5 attempts is answered as an invalid-code
\* comparison and the record stays; "too many attempts" is only answered to a
\* record with 5 attempts.
C5_BudgetOfFive ==
    [][\A e \in Emails, c \in Codes, p \in Purposes :
         \A d \in Found(e, p) :
            (verifyOTP(e, c, p) /\ now <= d.expiresAt) =>
               /\ (d.otp # c /\ d.attempts < DocumentedMaxAttempts) =>
                     /\ last'.message = "invalid"
                     /\ Incremented(d) \in otps'
               /\ last'.message = "too_many" => d.attempts >= DocumentedMaxAttempts]_vars

\* C6: after verifyOTP has succeeded for a pair, every later verifyOTP for the
\* pair (the same code included) fails with "not found or already used" until
\* a new createOTP for the pair; a success always consumes a code that was
\* issued and not yet used, so one code yields one success.
C6_SingleUse ==
    [][\A pr \in Pairs :
         /\ \A c \in Codes :
              verifyOTP(pr[1], c, pr[2]) =>
                 /\ hist[pr].st = "spent" =>
                       last'.message = "not_found" /\ ~last'.success
                 /\ last'.success =>
                       hist[pr].st = "live" /\ hist'[pr].st = "spent"
         /\ (hist[pr].st = "spent" /\ hist'[pr].st # "spent") =>
               /\ last'.op = "createOTP"
               /\ <<last'.email, last'.purpose>> = pr]_vars

\* the code that had just been verified was presented again and refused
C6_Witness ==
    /\ last.op = "verifyOTP"
    /\ last.message = "not_found"
    /\ hist[<<last.email, last.purpose>>].st = "spent"
    /\ last.otp = hist[<<last.email, last.purpose>>].otp
    /\ \E d \in otps : d.id = hist[<<last.email, last.purpose>>].id /\ d.verified

\* C7 as stated: verifyOTP at any time now >= expiresAt of the latest
\* unverified record deletes it and answers "expired".
C7_ExpiredAtOrAfter ==
    [][\A e \in Emails, c \in Codes, p \in Purposes :
         \A d \in Found(e, p) :
            (verifyOTP(e, c, p) /\ now >= d.expiresAt) =>
               last'.message = "expired" /\ otps' = otps \ {d}]_vars

\* C7 amended: verifyOTP at a time now > expiresAt deletes the record and
\* answers "expired" whatever the code; at now = expiresAt exactly the record
\* still counts as unexpired and is never answered "expired".
C7_ExpiredStrictlyAfter ==
    [][\A e \in Emails, c \in Codes, p \in Purposes :
         \A d \in Found(e, p) :
            verifyOTP(e, c, p) =>
               /\ now > d.expiresAt =>
                     /\ last'.message = "expired"
                     /\ ~last'.success
                     /\ otps' = otps \ {d}
               /\ now = d.expiresAt => last'.message # "expired"]_vars

\* the correct code was presented after expiresAt and refused as expired
C7_Witness ==
    /\ last.op = "verifyOTP"
    /\ last.message = "expired"
    /\ last.otp = hist[<<last.email, last.purpose>>].otp
    /\ last.id = hist[<<last.email, last.purpose>>].id
    /\ \A d \in otps : d.id # last.id

----------------------------------------------------------------------------
(* Properties of the rate limiter (SpecRL) *)

\* C8: counting a key's calls from the call that opens its window, calls
\* number 1..M made within W of that call are allowed and call number M + 1
\* (and any further one) within W is rejected with remaining = 0.
C8_RejectsAfterMax ==
    rl.op = "checkRateLimit" =>
       /\ win[rl.key].calls <= cfg.maxAttempts =>
             rl.allowed /\ rl.remaining = cfg.maxAttempts - win[rl.key].calls
       /\ win[rl.key].calls = cfg.maxAttempts + 1 =>
             ~rl.allowed /\ rl.remaining = 0

\* call M + 1 was made exactly W after the first call and was rejected
C8_Witness ==
    /\ rl.op = "checkRateLimit"
    /\ win[rl.key].calls = cfg.maxAttempts + 1
    /\ now = win[rl.key].start + cfg.windowMs
    /\ ~rl.allowed

\* C9 as stated: a call at any time now >= resetTime, whatever the stored
\* count, is allowed and restarts the window with count = 1 and
\* resetTime = now + W.
C9_RestartAtOrAfterReset ==
    [][\A k \in Keys :
         (checkRateLimit(k, cfg.maxAttempts, cfg.windowMs)
            /\ rateLimitMap[k] # NoRecord /\ now >= rateLimitMap[k].resetTime) =>
               /\ rl'.allowed
               /\ rateLimitMap'[k] = [count |-> 1, resetTime |-> now + cfg.windowMs]]_vars

\* C9 amended: a call at a time now > resetTime, whatever the stored count, is
\* allowed and restarts the window with count = 1 and resetTime = now + W; at
\* now = resetTime exactly the old window still applies (resetTime is kept and
\* the call is rejected when count has reached the maximum).
C9_RestartStrictlyAfterReset ==
    [][\A k \in Keys :
         (checkRateLimit(k, cfg.maxAttempts, cfg.windowMs) /\ rateLimitMap[k] # NoRecord) =>
            /\ now > rateLimitMap[k].resetTime =>
                  /\ rl'.allowed
                  /\ rl'.remaining = cfg.maxAttempts - 1
                  /\ rateLimitMap'[k] = [count |-> 1, resetTime |-> now + cfg.windowMs]
            /\ now = rateLimitMap[k].resetTime =>
                  /\ rateLimitMap'[k].resetTime = rateLimitMap[k].resetTime
                  /\ rl'.allowed = (rateLimitMap[k].count < cfg.maxAttempts)]_vars

\* a call made after resetTime was accepted and opened a new window
C9_Witness ==
    /\ rl.op = "checkRateLimit"
    /\ rl.branch = "restart"
    /\ rl.allowed
    /\ win[rl.key].calls = 1
    /\ win[rl.key].start = now
    /\ rateLimitMap[rl.key] = [count |-> 1, resetTime |-> now + cfg.windowMs]

\* C10: every stored count lies in 1..M, and a rejected call leaves the
\* count (the whole map) as it was.
C10_CountWithinMax ==
    /\ [](\A k \in Keys :
            rateLimitMap[k] # NoRecord =>
               rateLimitMap[k].count >= 1 /\ rateLimitMap[k].count <= cfg.maxAttempts)
    /\ [][\A k \in Keys :
            (checkRateLimit(k, cfg.maxAttempts, cfg.windowMs) /\ ~rl'.allowed) =>
               rateLimitMap' = rateLimitMap]_vars

\* a call was rejected with the count standing at the maximum
C10_Witness ==
    /\ rl.op = "checkRateLimit"
    /\ ~rl.allowed
    /\ rateLimitMap[rl.key].count = cfg.maxAttempts
    /\ cfg.maxAttempts > 1

----------------------------------------------------------------------------
(* Properties of the routes (SpecSignup, SpecResend, SpecLogin, SpecForgot, *)
(* SpecReset)                                                               *)

\* the records of one email and purpose that carry the given id
WithId(docs, id) == {d \in docs : d.id = id}

\* C11: when signup/request-otp has created an OTP and the email send fails,
\* the handler answers 500 and, when it answers, the record it created is gone
\* and no unverified email_verification record of that email is left; ids are
\* never reused, so no code of that request can verify later.
C11_SignupRollback ==
    [][(SignupSendEmail /\ http'.mail = "failed")
         => /\ http'.pc = "idle"
            /\ http'.status = 500
            /\ WithId(otps', last.id) = {}
            /\ {d \in otps' : d.email = http.email /\ d.purpose = "email_verification"
                                /\ ~d.verified} = {}
            /\ nextId' > last.id]_vars

\* signup/request-otp has answered 500 after a failed send, and the record of
\* its createOTP is not in the store
C11_Witness ==
    /\ http.route = "signup/request-otp"
    /\ http.status = 500
    /\ http.mail = "failed"
    /\ last.op = "createOTP"
    /\ WithId(otps, last.id) = {}

\* the response bodies that tell the client a code has been sent
SaysSent ==
    {"OTP sent to your email", "OTP sent successfully",
     "Email not verified. A new verification OTP has been sent",
     "Password reset OTP sent to your email"}

\* C12: in every flow that creates an OTP and emails it, when the send fails
\* the handler finishes with the record it created deleted and with a response
\* that does not say a code was sent.
C12_FailedSendCompensated ==
    [][(http'.pc = "idle" /\ http'.mail = "failed" /\ http.pc # "idle")
         => /\ WithId(otps', last'.id) = {}
            /\ http'.msg \notin SaysSent]_vars

\* C13: signup/request-otp has answered success for an email, nothing else has
\* been asked of the router since, and signup/verify-otp is called for that
\* email with the issued code before the code expires: the response is 201 with
\* a session token, and the user of that email exists with isEmailVerified
\* true, carrying the name and the hash of the password of the call (a user
\* that existed unverified keeps its other fields).
C13_SignupHappyPath ==
    [][\A n \in Names, e \in Emails, pw \in Passwords, c \in Codes :
        (/\ SignupVerifyOtp(n, e, pw, c)
         /\ http.route = "signup/request-otp" /\ http.status = 200 /\ http.email = e
         /\ last.op = "createOTP" /\ last.email = e
         /\ last.purpose = "email_verification" /\ last.otp = c
         /\ now < http.at + ShortExpiryMinutes)
        => /\ http'.status = 201
           /\ http'.token.kind = "session" /\ http'.token.email = e
           /\ users'[e].exists
           /\ users'[e].isEmailVerified
           /\ users'[e].name = n
           /\ users'[e].password = bcryptHash(pw)
           /\ users'[e].isDeleted = users[e].isDeleted
           /\ users'[e].lastLoginAt = users[e].lastLoginAt]_vars

\* signup/verify-otp has answered 201 with a token after the only code that
\* was issued has been verified at its first comparison, and the user is
\* verified and has a password
C13_Witness ==
    /\ http.route = "signup/verify-otp"
    /\ http.status = 201
    /\ http.token.kind = "session"
    /\ last.op = "verifyOTP" /\ last.success
    /\ nextId = 2
    /\ \E d \in otps : d.verified /\ d.attempts = 1
    /\ \E e \in Emails : users[e].isEmailVerified /\ users[e].password # <<>>

\* C14: when the verification of signup/verify-otp fails (no record, expired,
\* too many attempts or a wrong code), the user collection is left as it was,
\* no token is issued, and the 400 response carries the message and the
\* attemptsRemaining of the store's result.
C14_SignupVerifyFailure ==
    [][\A n \in Names, e \in Emails, pw \in Passwords, c \in Codes :
        (SignupVerifyOtp(n, e, pw, c) /\ ~last'.success)
        => /\ users' = users
           /\ tokens' = tokens
           /\ http'.token = NoToken
           /\ http'.status = 400
           /\ http'.msg = last'.message
           /\ http'.attemptsRemaining = last'.attemptsRemaining]_vars

\* signup/verify-otp has answered 400 for a wrong code, with the store's
\* message and two attempts remaining, and no user exists
C14_Witness ==
    /\ http.route = "signup/verify-otp"
    /\ http.status = 400
    /\ last.op = "verifyOTP" /\ ~last.success
    /\ http.msg = "invalid" /\ last.message = "invalid"
    /\ http.attemptsRemaining = MaxAttempts - 1
    /\ \A e \in Emails : ~users[e].exists

\* the unverified records of an email and purpose in a collection
UnverifiedIn(docs, email, purpose) ==
    {d \in docs : d.email = email /\ d.purpose = purpose /\ ~d.verified}

\* C15: for an existing, not deleted user whose email is not verified, a login
\* the limiter allows goes to the OTP branch whatever the password, and that
\* branch answers 403 with requiresVerification, without a token and without
\* touching the user; when it answers, the only unverified email_verification
\* record of the email is the one just created, with no attempt used.
C15_LoginVerificationGate ==
    [][/\ \A e \in Emails, pw \in Passwords :
            (/\ Login(e, pw) /\ rl'.allowed
             /\ users[e].exists /\ ~users[e].isDeleted /\ ~users[e].isEmailVerified)
            => /\ http'.pc = "login_create" /\ http'.email = e
               /\ http'.token = NoToken
               /\ users' = users /\ tokens' = tokens
       /\ LoginCreateOtp
            => /\ http'.pc = "idle"
               /\ http'.status = 403
               /\ http'.requiresVerification
               /\ http'.token = NoToken
               /\ users' = users /\ tokens' = tokens
               /\ \E d \in otps' :
                     /\ UnverifiedIn(otps', http.email, "email_verification") = {d}
                     /\ d.id = nextId /\ d.attempts = 0
                     /\ d.createdAt = now /\ d.expiresAt = now + LoginExpiryMinutes]_vars

\* login has answered 403 with requiresVerification for the second time: the
\* record of the first answer has been replaced by a fresh one
C15_Witness ==
    /\ http.route = "login"
    /\ http.status = 403
    /\ http.requiresVerification
    /\ nextId = 3
    /\ last.op = "createOTP"
    /\ \E d \in otps : /\ UnverifiedIn(otps, http.email, "email_verification") = {d}
                       /\ d.id = 2 /\ d.attempts = 0

\* C16: a login the limiter allows gets one and the same response, 401
\* 'Invalid email or password', when the email belongs to no user and when it
\* belongs to a verified, not deleted user whose password does not match; the
\* response is a function of the request alone, and in both cases the user
\* collection is left as it was and no token is issued.
C16_LoginEnumerationResistance ==
    [][\A e \in Emails, pw \in Passwords :
        (/\ Login(e, pw) /\ rl'.allowed
         /\ \/ ~users[e].exists
            \/ /\ users[e].exists /\ ~users[e].isDeleted /\ users[e].isEmailVerified
               /\ ~bcryptCompare(pw, users[e].password))
        => /\ http' = [NoRequest EXCEPT !.route = "login", !.email = e, !.status = 401,
                                        !.msg = "Invalid email or password", !.at = now]
           /\ users' = users /\ tokens' = tokens]_vars

\* login has answered 401 'Invalid email or password' to a wrong password of a
\* verified, not deleted user
C16_Witness ==
    /\ http.route = "login"
    /\ http.status = 401
    /\ http.msg = "Invalid email or password"
    /\ rl.allowed
    /\ users[http.email].exists /\ users[http.email].isEmailVerified
    /\ ~users[http.email].isDeleted

C18_ResetNeedsResetCredential ==
    [][\A cred \in Credentials, pw \in NewPasswords :
        ResetPassword(cred, pw) =>
          LET valid == cred.signed /\ now < cred.tok.exp IN
          /\ users' # users => (valid /\ cred.tok.purpose = "password_reset")
          /\ (valid /\ cred.tok.purpose # "password_reset")
               => (http'.status = 401 /\ users' = users)
          /\ ~valid => (http'.status = 401 /\ users' = users)]_vars

\* reset-password has answered 401 'Invalid reset token' to a signed credential
\* of another purpose while a reset token of the user was in circulation, and
\* the user's password has never been reset
C18_Witness ==
    /\ http.route = "reset-password"
    /\ http.status = 401
    /\ http.msg = "Invalid reset token"
    /\ \E t \in tokens : /\ users[t.email].exists
                         /\ users[t.email].passwordResetAt = NoTime
                         /\ now < t.exp

\* C19: a reset-password that answers 200 stores the hash of the new password,
\* sets failedLoginAttempts to 0 and accountLockedUntil to null, stamps
\* passwordResetAt, returns and issues no token, and leaves the user's
\* isEmailVerified, isDeleted, lastLoginAt and name, every other user, the OTP
\* records and the limiter's map as they were.
C19_ResetSuccessFrame ==
    [][\A cred \in Credentials, pw \in NewPasswords :
        (ResetPassword(cred, pw) /\ http'.status = 200) =>
          LET e == cred.tok.email IN
          /\ users'[e].password = bcryptHash(pw)
          /\ users'[e].failedLoginAttempts = 0
          /\ users'[e].accountLockedUntil = NoTime
          /\ users'[e].passwordResetAt = now
          /\ http'.token = NoToken
          /\ tokens' = tokens
          /\ users'[e].exists
          /\ users'[e].isEmailVerified = users[e].isEmailVerified
          /\ users'[e].isDeleted = users[e].isDeleted
          /\ users'[e].lastLoginAt = users[e].lastLoginAt
          /\ users'[e].name = users[e].name
          /\ \A x \in Emails \ {e} : users'[x] = users[x]
          /\ otps' = otps
          /\ rateLimitMap' = rateLimitMap]_vars

\* reset-password has answered 200 for a user whose email is not verified,
\* while an OTP record and a limiter record exist: the user has the new hash,
\* zeroed lockout counters and a reset stamp, and is still unverified
C19_Witness ==
    /\ http.route = "reset-password"
    /\ http.status = 200
    /\ otps # {}
    /\ rateLimitMap[RateKey("forgot", "a@gmail.com")] # NoRecord
    /\ \E e \in Emails :
         /\ users[e].password = bcryptHash("Passw0rd2")
         /\ users[e].failedLoginAttempts = 0
         /\ users[e].passwordResetAt = http.at
         /\ ~users[e].isEmailVerified

----------------------------------------------------------------------------
(* Properties of input validation (SpecValidate) *)

\* C21: a request that input validation rejects (a missing field, an email
\* with invalid syntax or of another domain, a weak password in
\* signup/request-otp; a missing field or an unknown purpose in resend-otp; a
\* missing field or a weak password in reset-password) is answered 400 and
\* changes nothing else: no limiter window, no OTP record, no user, no token,
\* and no mail is sent.  Stated contrapositively: a step that is not such an
\* answer is not the step of any request with a rejected input.
C21_RejectedInputChangesNothing ==
    [][\/ /\ http'.pc = "idle" /\ http'.status = 400 /\ http'.mail = "none"
          /\ UNCHANGED <<rateLimitMap, otps, nextId, users, tokens>>
       \/ /\ \A n \in BodyNames, e \in BodyEmails, pw \in BodyPasswords :
                (\/ n = "" \/ e \notin GoodEmails \/ pw \notin StrongPasswords)
                => ~ SignupRequestBody([name |-> n, email |-> e, password |-> pw])
          /\ \A e \in GoodEmails \cup {Missing}, p \in BodyPurposes :
                (\/ e = Missing \/ p \notin Purposes)
                => ~ ResendBody([email |-> e, purpose |-> p])
          /\ \A cred \in Credentials \cup {Missing}, pw \in BodyPasswords :
                (\/ cred = Missing \/ pw \notin StrongPasswords)
                => ~ ResetBody([resetToken |-> cred, newPassword |-> pw])]_vars

\* signup/request-otp has answered 400 'Invalid email format' while an OTP
\* record and a window of the signup limiter exist
C21_Witness ==
    /\ http.route = "signup/request-otp"
    /\ http.status = 400
    /\ http.msg = "Invalid email format"
    /\ otps # {}
    /\ rateLimitMap[RateKey("signup", "a@gmail.com")] # NoRecord

----------------------------------------------------------------------------
(* Properties of the rate-limited endpoints (SpecLimit) *)

\* a call of `key` that arrives while the window of the key is open and full
Exhausted(key, maxAttempts) ==
    /\ rateLimitMap[key] # NoRecord
    /\ now <= rateLimitMap[key].resetTime
    /\ rateLimitMap[key].count >= maxAttempts

\* the answer to a rate-limited call: 429 with the minutes left in the window,
\* nothing of any user in it, no mail; the OTP store and the users are as
\* before
Rejected429(route, email, key) ==
    /\ http'.pc = "idle"
    /\ http'.route = route
    /\ http'.status = 429
    /\ http'.retryAfter = rateLimitMap[key].resetTime - now
    /\ http'.retryAfter \in 0..RateWindowMinutes
    /\ http'.mail = "none"
    /\ http'.token = NoToken
    /\ UNCHANGED <<otps, nextId, users, tokens>>

----------------------------------------------------------------------------
(* Properties of signup against existing users (SpecOwned) *)

----------------------------------------------------------------------------
(* Properties of the OTP store, continued (Spec) *)

\* the records of the other purposes
OtherPurposes(docs, purpose) == {d \in docs : d.purpose # purpose}

\* C24: verifyOTP succeeds for (email, purpose) only on an unverified record of
\* that very email and purpose holding the offered code, so a code issued for
\* one purpose opens nothing under the other; and createOTP and verifyOTP for
\* one purpose leave every record of the other purposes as it was.
C24_PurposeIsolation ==
    [][\A e \in Emails, p \in Purposes :
         /\ \A c \in Codes :
              verifyOTP(e, c, p) =>
                /\ last'.success =>
                     \E d \in otps : /\ d.id = last'.id /\ d.email = e /\ d.purpose = p
                                     /\ d.otp = c /\ ~d.verified
                /\ OtherPurposes(otps', p) = OtherPurposes(otps, p)
         /\ \A m \in ExpiryChoices :
              createOTP(e, p, m) => OtherPurposes(otps', p) = OtherPurposes(otps, p)]_vars

\* the code of a live, untried email_verification record has been offered for
\* password_reset and was refused, while a password_reset record exists
C24_Witness ==
    /\ last.op = "verifyOTP" /\ last.purpose = "password_reset" /\ ~last.success
    /\ \E d \in otps :
         /\ d.email = last.email /\ d.purpose = "email_verification"
         /\ d.otp = last.otp /\ ~d.verified /\ d.attempts = 0 /\ now <= d.expiresAt
    /\ \E d \in otps : d.email = last.email /\ d.purpose = "password_reset"

\* the ids of a set of records
Ids(docs) == {d.id : d \in docs}

\* C25: every change to the OTP store is (a) the creation of a record with a
\* fresh id, attempts = 0 and verified = false, (b) an increment of attempts
\* by one on a record that stays unverified, (c) the step of a record from
\* unverified to verified (the same save also counts the attempt), or (d) a
\* deletion; a verified record is never changed again (so it is neither
\* unverified nor verified a second time), and email, code, purpose and
\* expiresAt of a record never change.
C25_Lifecycle ==
    [][/\ \A d \in otps' :
            d.id \notin Ids(otps)
              => /\ d.id = nextId /\ nextId' = nextId + 1
                 /\ d.attempts = 0 /\ ~d.verified
       /\ \A d \in otps, e \in otps' :
            d.id = e.id
              => /\ e.email = d.email /\ e.otp = d.otp /\ e.purpose = d.purpose
                 /\ e.expiresAt = d.expiresAt /\ e.createdAt = d.createdAt
                 /\ d.verified => e = d
                 /\ e # d => e.attempts = d.attempts + 1
       /\ \A d \in otps', e \in otps' : d.id = e.id => d = e]_vars

\* a record went through the whole lifecycle: created, tried once with a wrong
\* code, verified, and then offered again and not found
C25_Witness ==
    /\ \E d \in otps : d.verified /\ d.attempts = 2 /\ d.otp = last.otp
                       /\ d.email = last.email /\ d.purpose = last.purpose
    /\ last.op = "verifyOTP" /\ last.message = "not_found"

\* C26: no step lowers the attempts of a record that stays in the store, and
\* a record with attempts = 0 that was not in the store before the step has
\* an id no record had before, i.e. it was created by this step.
C26_AttemptsNeverDecrease ==
    [][/\ \A d \in otps, e \in otps' : d.id = e.id => e.attempts >= d.attempts
       /\ \A e \in otps' :
            (e.attempts = 0 /\ e \notin otps)
              => /\ e.id = nextId /\ e.id \notin Ids(otps)
                 /\ last'.op = "createOTP" /\ last'.id = e.id
                 /\ \A d \in otps :
                      (d.email = e.email /\ d.purpose = e.purpose /\ ~d.verified)
                        => d.id \notin Ids(otps')]_vars

\* a pair is back at attempts = 0: its new record was just created, while an
\* older record of the pair, tried once with a wrong code and then verified,
\* keeps its count
C26_Witness ==
    /\ last.op = "createOTP"
    /\ \E d \in otps, e \in otps :
         /\ d.email = e.email /\ d.purpose = e.purpose
         /\ d.verified /\ d.attempts = 2
         /\ e.id = last.id /\ e.id > d.id /\ e.attempts = 0 /\ ~e.verified

----------------------------------------------------------------------------
(* Properties of the OTP store under two emails (SpecTwo) *)

\* C27: a verifyOTP call that finds no unverified record of its (email,
\* purpose) leaves the whole store as it was; and any verifyOTP call leaves
\* every record of another email or purpose in the store, unchanged, and adds
\* none.
C27_OtherIdentitiesUntouched ==
    [][\A pr \in Identities, c \in Codes :
         verifyOTP(pr[1], c, pr[2]) =>
           /\ (\A d \in otps : d.email # pr[1] \/ d.purpose # pr[2] \/ d.verified)
                => otps' = otps
           /\ {d \in otps' : d.email # pr[1] \/ d.purpose # pr[2]}
                = {d \in otps : d.email # pr[1] \/ d.purpose # pr[2]}]_vars

\* the code of a's record was offered for the other email and not found; a's
\* record, tried once before by a, still has one attempt counted
C27_Witness ==
    /\ last.op = "verifyOTP" /\ last.email = OtherEmail /\ last.message = "not_found"
    /\ \E d \in otps :
         /\ d.email = "a@gmail.com" /\ d.purpose = last.purpose /\ d.otp = last.otp
         /\ ~d.verified /\ d.attempts = 1

----------------------------------------------------------------------------
(* Properties of the code's lifetime (SpecSignup) *)

\* C28 as stated: a code expires 10 minutes after its creation, so
\* signup/verify-otp with the right code, presented less than 10 minutes after
\* the issuing of the latest unverified record that still has attempts left,
\* succeeds; and the expiresIn of the answer that announces a code is the
\* lifetime of its record in seconds.
C28_TenMinuteLifetime ==
    [][/\ \A n \in Names, e \in Emails, pw \in Passwords, c \in Codes :
            \A d \in otps :
               (/\ SignupVerifyOtp(n, e, pw, c)
                /\ d.email = e /\ d.purpose = "email_verification" /\ ~d.verified
                /\ d.otp = c /\ d.attempts < MaxAttempts
                /\ \A o \in otps : (o.email = e /\ o.purpose = d.purpose /\ ~o.verified)
                                     => o = d
                /\ now < d.createdAt + DocumentedExpiryMinutes)
               => last'.success
       /\ (SignupSendEmail /\ http'.mail = "sent")
            => \E d \in otps : /\ d.id = last.id
                               /\ http'.expiresIn = 60 * (d.expiresAt - d.createdAt)]_vars

----------------------------------------------------------------------------
(* Properties of interleaved verifyOTP calls (SpecConc) *)

\* C29 as stated: however verifyOTP calls interleave at their findOne and
\* save, the wrong-code comparisons made against one record never number
\* more than the maximum.
C29_AttemptBoundConcurrent ==
    \A i \in 1..MaxCreates : calls.wrong[i] <= MaxAttempts

\* C30 as stated: however verifyOTP calls interleave at their findOne and
\* save, at most one call returns success for one record.
C30_SingleUseConcurrent ==
    \A i \in 1..MaxCreates : calls.ok[i] <= 1

----------------------------------------------------------------------------
(* Properties of interleaved createOTP calls (SpecIssue) *)

\* C31 as stated: however createOTP calls interleave between their deleteMany
\* and their create, once no call is in flight there is at most one
\* unverified record per (email, purpose).
C31_SingleActiveConcurrent ==
    (\A w \in Callers : calls.proc[w].pc = "idle")
      => \A pr \in Pairs :
           Cardinality({d \in otps : d.email = pr[1] /\ d.purpose = pr[2] /\ ~d.verified}) <= 1

----------------------------------------------------------------------------
(* Properties of the limiter under interleaved handlers (SpecAsync) *)

\* C32: with handlers interleaving only at their awaits, a call that
\* checkRateLimit allows is one of the first M calls of its key's window,
\* whatever other handler is suspended at that moment; so the calls allowed
\* within one window never number more than M.
C32_AtomicLimiter ==
    [][\A w \in Callers, k \in Keys :
         Arrive(w, k) =>
           /\ rl'.allowed => win'[k].calls <= cfg.maxAttempts
           /\ win'[k].calls > cfg.maxAttempts => (~rl'.allowed /\ calls'.proc[w].pc = "idle")
           /\ rateLimitMap'[k].count <= cfg.maxAttempts]_vars

\* a request was rejected as call M + 1 of its window while the handler of an
\* earlier, allowed request of the same key was still suspended
C32_Witness ==
    /\ rl.op = "checkRateLimit" /\ ~rl.allowed
    /\ win[rl.key].calls = cfg.maxAttempts + 1
    /\ cfg.maxAttempts > 1
    /\ \E w \in Callers : calls.proc[w].pc = "awaiting"

----------------------------------------------------------------------------
(* Properties of the reported attempts (Spec) *)

\* C33 as stated: the attemptsRemaining of a mismatch is the maximum minus the
\* record's attempts after the increment and is never negative; and a record
\* whose remaining attempts are 0 is exactly a record whose next verifyOTP,
\* the right code included, is refused with "too many attempts".
C33_RemainingZeroMeansTooMany ==
    [][\A e \in Emails, c \in Codes, p \in Purposes :
         \A d \in Found(e, p) :
            verifyOTP(e, c, p) =>
              /\ last'.message = "invalid" =>
                   /\ \E o \in otps' : o.id = d.id
                                       /\ last'.attemptsRemaining = MaxAttempts - o.attempts
                   /\ last'.attemptsRemaining >= 0
              /\ (MaxAttempts - d.attempts = 0) <=> (last'.message = "too_many")]_vars

\* C33 amended: the attemptsRemaining of a mismatch is the maximum (3) minus
\* the record's attempts after the increment and is never negative; a record
\* whose remaining attempts are 0 has its next verifyOTP, the right code
\* included, refused: with "too many attempts" when the record has not
\* expired by then, with "expired" otherwise; and "too many attempts" is
\* answered only to a record whose remaining attempts are 0.
C33_RemainingZeroMeansRefused ==
    [][\A e \in Emails, c \in Codes, p \in Purposes :
         \A d \in Found(e, p) :
            verifyOTP(e, c, p) =>
              /\ last'.message = "invalid" =>
                   /\ \E o \in otps' : o.id = d.id
                                       /\ last'.attemptsRemaining = MaxAttempts - o.attempts
                   /\ last'.attemptsRemaining >= 0
              /\ (MaxAttempts - d.attempts = 0) =>
                   /\ ~last'.success
                   /\ last'.message = (IF now <= d.expiresAt THEN "too_many" ELSE "expired")
                   /\ \A o \in otps' : o.id # d.id
              /\ last'.message = "too_many" => MaxAttempts - d.attempts = 0
              /\ d.attempts <= MaxAttempts]_vars

\* the third wrong code was answered with 0 attempts remaining, and the record
\* was then left to expire before the right code was offered and refused as
\* expired
C33_Witness ==
    /\ last.op = "verifyOTP" /\ last.message = "expired"
    /\ hist[<<last.email, last.purpose>>].st = "burned"
    /\ last.id = hist[<<last.email, last.purpose>>].id
    /\ last.otp = hist[<<last.email, last.purpose>>].otp

----------------------------------------------------------------------------
(* Properties of the limiter, continued (SpecRL) *)

\* C34 as stated: the resetIn of a rejected call is a whole number of minutes
\* from 1 to ceil(W / minute); it is never 0.
C34_ResetInAtLeastOne ==
    [][\A k \in Keys :
         (checkRateLimit(k, cfg.maxAttempts, cfg.windowMs) /\ ~rl'.allowed) =>
            /\ rl'.resetIn >= 1
            /\ rl'.resetIn <= CeilDiv(cfg.windowMs, cfg.unit)]_vars

\* C34 amended: the resetIn of a rejected call is the time left to resetTime
\* rounded up to whole minutes, from 0 to ceil(W / minute) and never negative;
\* it is 0 exactly at now = resetTime, where the old window still applies.
C34_ResetInRoundedUp ==
    [][\A k \in Keys :
         (checkRateLimit(k, cfg.maxAttempts, cfg.windowMs) /\ ~rl'.allowed) =>
            /\ rl'.resetIn \in 0..CeilDiv(cfg.windowMs, cfg.unit)
            /\ rl'.resetIn * cfg.unit >= rateLimitMap[k].resetTime - now
            /\ (rl'.resetIn - 1) * cfg.unit < rateLimitMap[k].resetTime - now
            /\ (rl'.resetIn = 0) <=> (now = rateLimitMap[k].resetTime)]_vars

\* a call was rejected at now = resetTime with resetIn = 0, and the clock
\* counts two ticks to the minute
C34_Witness ==
    /\ rl.op = "checkRateLimit" /\ ~rl.allowed
    /\ rl.resetIn = 0
    /\ now = rateLimitMap[rl.key].resetTime
    /\ cfg.unit = 2

\* C35: a rejected checkRateLimit call leaves the whole map unchanged, and an
\* allowed call changes no entry but that of its own key, whatever the other
\* keys (another operation of the same identity, another identity) hold.
C35_RateLimitFrame ==
    [][\A k \in FrameKeys :
         checkRateLimit(k, cfg.maxAttempts, cfg.windowMs) =>
            /\ (~rl'.allowed => rateLimitMap' = rateLimitMap)
            /\ \A j \in FrameKeys \ {k} : rateLimitMap'[j] = rateLimitMap[j]
            /\ rl'.allowed => rateLimitMap'[k] # rateLimitMap[k]]_vars

\* a call for signup:a was rejected while login:a and signup:b hold windows
\* of their own that are not used up
C35_Witness ==
    /\ rl.op = "checkRateLimit" /\ ~rl.allowed /\ rl.key = "signup:a@gmail.com"
    /\ \A j \in FrameKeys \ {rl.key} :
          /\ rateLimitMap[j].count >= 1
          /\ rateLimitMap[j].count < cfg.maxAttempts
    /\ rateLimitMap["login:a@gmail.com"] # rateLimitMap["signup:b@gmail.com"]

----------------------------------------------------------------------------
(* Properties of the handlers, continued *)

\* C36: no endpoint issues a session token for a soft-deleted user: whenever
\* a request is answered with a session token, the user of that email is not
\* marked isDeleted at that moment.
C36_NoTokenForDeletedUser ==
    [][((SignupVerify \/ LoginRequest \/ Google) /\ http'.token.kind = "session") =>
          ~users'[http'.email].isDeleted]_vars

\* C37: every user created or verified by signup/verify-otp has passed the
\* validations of signup/request-otp: the email of the request is a valid
\* Gmail address and the password stored is a strong one.
C37_VerifiedUsersPassedValidation ==
    [][(http'.route = "signup/verify-otp" /\ http'.status = 201) =>
          \A n \in BodyNames, e \in GoodEmails, pw \in VerifyPasswords, c \in Codes :
             SignupVerifyBody([name |-> n, email |-> e, password |-> pw, otp |-> c]) =>
                /\ isValidEmail(normalize(e))
                /\ isGmailAddress(normalize(e))
                /\ isStrongPassword(pw)]_vars

\* C38: reset-password changes a user's password only if verifyOTP with
\* purpose password_reset succeeded for that email at most 15 minutes earlier:
\* a reset token is issued only by such a success, for its email and with 15
\* minutes to live, and a password changes only under a token issued for the
\* email no more than 15 minutes ago.
C38_ResetOnlyAfterRecentVerify ==
    /\ [][\A tk \in tokens' \ tokens :
             /\ last'.op = "verifyOTP" /\ last'.success
             /\ last'.purpose = "password_reset" /\ last'.email = tk.email
             /\ tk.exp = now' + ResetTokenMinutes]_vars
    /\ [][\A e \in Emails :
             users'[e] # users[e] =>
                \E tk \in tokens :
                   /\ tk.email = e
                   /\ tk.exp - ResetTokenMinutes <= now
                   /\ now - (tk.exp - ResetTokenMinutes) <= ResetTokenMinutes]_vars

\* a password was reset 14 minutes after the only successful verification
C38_Witness ==
    /\ http.route = "reset-password" /\ http.status = 200
    /\ \E e \in Emails : users[e].passwordResetAt = now
    /\ tokens # {}
    /\ \A tk \in tokens : now - (tk.exp - ResetTokenMinutes) = ResetTokenMinutes - 1

----------------------------------------------------------------------------
(* Properties of the issuing endpoints together (SpecBudget) *)

\* the email_verification records created for the address so far, all of them
\* at minute 0 and so within one window of every key
Issued == nextId - 1
AllowedFor(key) == rateLimitMap[key].count

\* C39 as stated: within one 15-minute window at most 3 email_verification
\* records are created for one address, over any mix of signup/request-otp,
\* resend-otp and login calls.
C39_ThreePerAddress == Issued <= OtpRequestMax

\* C39 amended: every record is created, and every verification email sent, by
\* a request its own endpoint's window allowed; each endpoint's window allows
\* at most its own maximum (3 for signup, 3 for resend, 5 for login), so the
\* records created in one window number at most the calls the three windows
\* allowed together, never more than 3 + 3 + 5.
C39_BudgetPerEndpoint ==
    /\ [](/\ AllowedFor(RateKey("signup", "a@gmail.com")) <= OtpRequestMax
          /\ AllowedFor(ResendKey("a@gmail.com", "email_verification")) <= OtpRequestMax
          /\ AllowedFor(RateKey("login", "a@gmail.com")) <= LoginMax
          /\ Issued <= AllowedFor(RateKey("signup", "a@gmail.com"))
                         + AllowedFor(ResendKey("a@gmail.com", "email_verification"))
                         + AllowedFor(RateKey("login", "a@gmail.com")))
    /\ [][nextId' # nextId =>
             /\ nextId' = nextId + 1
             /\ rl.allowed
             /\ rl.key = (CASE http.pc = "signup_create" -> RateKey("signup", http.email)
                            [] http.pc = "resend_create" -> ResendKey(http.email, http.purpose)
                            [] http.pc = "login_create" -> RateKey("login", http.email)
                            [] OTHER -> <<>>)]_vars
    /\ [][(http'.mail = "sent" /\ http' # http) =>
             (nextId' = nextId + 1 \/ http.pc = "signup_send")]_vars
    /\ [][(http'.pc = "signup_send" /\ http.pc # "signup_send") =>
             nextId' = nextId + 1]_vars

\* the three windows are used up at minute 0 and 3 + 3 + 5 records were
\* created, the last one still unverified in the store
C39_Witness ==
    /\ Issued = OtpRequestMax + OtpRequestMax + LoginMax
    /\ now = 0
    /\ AllowedFor(RateKey("signup", "a@gmail.com")) = OtpRequestMax
    /\ AllowedFor(ResendKey("a@gmail.com", "email_verification")) = OtpRequestMax
    /\ AllowedFor(RateKey("login", "a@gmail.com")) = LoginMax
    /\ \E d \in otps : d.id = Issued /\ d.purpose = "email_verification" /\ ~d.verified

----------------------------------------------------------------------------
(* Properties of the limiter's allowed calls in time (SpecBurst) *)

\* C40: in any time interval shorter than the window W the calls the limiter
\* allowed for a key never number more than 2 * M; and 2 * M calls on the two
\* sides of a window boundary can all be allowed (C40_Witness).
C40_BurstAtMostTwiceMax ==
    \A i \in 1..Len(calls), j \in 1..Len(calls) :
       (i <= j /\ calls[j] - calls[i] < cfg.windowMs) => j - i + 1 <= 2 * cfg.maxAttempts

\* 2 * M allowed calls around the boundary resetTime = now - 1 of the first
\* window: the call that opened it W ticks before the boundary, M - 1 calls at
\* the boundary and M calls one tick after it, for M >= 2 and W >= 2
C40_Witness ==
    /\ cfg.maxAttempts >= 2 /\ cfg.windowMs >= 2
    /\ Len(calls) = 2 * cfg.maxAttempts
    /\ calls[1] = now - 1 - cfg.windowMs
    /\ \A i \in 2..cfg.maxAttempts : calls[i] = now - 1
    /\ \A i \in (cfg.maxAttempts + 1)..(2 * cfg.maxAttempts) : calls[i] = now
    /\ rl.allowed /\ rateLimitMap[BurstKey].count = cfg.maxAttempts

====
